---- MODULE Spec2Model ----
(***************************************************************************)
(* The AVL tree of trees/avltree/avltree.go as a state machine, with its    *)
(* FromJSON, the binary heap of trees/binaryheap/binaryheap.go and         *)
(* GetSortedValues of containers/containers.go.                            *)
(*                                                                         *)
(* A Tree is a record [nodes, Root, size]: nodes is the heap, a function   *)
(* from the addresses of the live Node objects to their fields (Key,       *)
(* Value, Parent, Children, b); Root and the link fields hold an address   *)
(* or Nil.  A **Node argument (qp, t) is a slot: the place of a pointer,   *)
(* either &t.Root or &n.Children[a].                                       *)
(*                                                                         *)
(* The recursive methods put / remove / removeMin return, besides the      *)
(* tree they leave behind, their boolean result (ret) and whether a        *)
(* comparison panicked (panic).  The field log of a Tree is a ghost: the   *)
(* fix-up steps of the call under way, in the order they ran.              *)
(***************************************************************************)
EXTENDS Integers, Sequences, FiniteSets, TLC

\* ---------------------------------------------------------------- bounds

\* Keys the mutating calls draw from.
MaxKey == 7

Keys == 1..MaxKey

\* Keys the specifications that also record the results of the read-only calls
\* draw from; their queries also ask for a key below and above all of them.
MaxQKey == 5

QKeys == 1..MaxQKey

QueryKeys == 0..(MaxQKey + 1)

\* The code never inspects a value: two opaque payloads tell an overwritten
\* value from a kept one.
Values == {"v1", "v2"}

\* Keys of the specification that looks at the single steps of the fix-up;
\* it puts one value only, and so reaches larger trees.
MaxDeepKey == 10

DeepKeys == 1..MaxDeepKey

\* The keys of the members of a JSON text, and how many members a text has at
\* most.
MaxJKey == 4
JKeys == 1..MaxJKey
MaxMembers == 3

\* The elements pushed onto the binary heap, how many of them one Push takes
\* at most, and how many the heap holds at most.
MaxElement == 3
Elements == 1..MaxElement
MaxPush == 3
MaxHeapSize == 7

\* How many elements an array given to the heap's FromJSON holds at most.
MaxArray == 3

\* How many elements a container is built with at most.
MaxValues == 4

\* ------------------------------------------------------------ data model

Nil == 0
NoValue == "nil"

\* A key of a type the comparator's type assertion rejects.
BadKey == -1

\* &t.Root
RootSlot == [n |-> Nil, a |-> 0]

ChildSlot(n, a) == [n |-> n, a |-> a]

EmptyTree == [nodes |-> <<>>, Root |-> Nil, size |-> 0, log |-> <<>>]

\* Ghost: fix-up step fn ran at node s with direction c, took the branch named
\* and returned ret.
Note(t, fn, c, s, branch, r) ==
  [t EXCEPT !.log = Append(@, [fn |-> fn, c |-> c, s |-> s,
                               branch |-> branch, ret |-> r])]

NewNode(key, value, p) ==
  [Key |-> key, Value |-> value, Parent |-> p,
   Children |-> [i \in {0, 1} |-> Nil], b |-> 0]

\* The address a freshly allocated Node gets: one no node of the heap has.
Alloc(t) == CHOOSE id \in 1..(Cardinality(DOMAIN t.nodes) + 1) :
              /\ id \notin DOMAIN t.nodes
              /\ \A j \in 1..id : j \notin DOMAIN t.nodes => j = id

\* *qp
Deref(t, qp) == IF qp.n = Nil THEN t.Root ELSE t.nodes[qp.n].Children[qp.a]

\* let r be v in F(r): v is written, and evaluated, once.
With(v, F(_)) == F(v)

\* What a recursive method hands back when no comparison panicked.
Result(t, r) == [t |-> t, ret |-> r, panic |-> FALSE]

\* A comparison panicked: the call unwinds with the tree as it is.
Panic(t) == [t |-> t, ret |-> FALSE, panic |-> TRUE]

\* if n != nil { n.Parent = p }
SetParent(t, n, p) == IF n # Nil THEN [t EXCEPT !.nodes[n].Parent = p] ELSE t

\* *qp = v
Assign(t, qp, v) ==
  IF qp.n = Nil
  THEN [t EXCEPT !.Root = v]
  ELSE [t EXCEPT !.nodes[qp.n].Children[qp.a] = v]

\* ------------------------------------------------------------ comparator

InDomain(k) == k \in Int /\ k >= 0

\* utils.IntComparator on two keys of its domain
Comparator(a, b) == IF a < b THEN -1 ELSE IF a > b THEN 1 ELSE 0

\* The comparator's type assertions panic on a key outside its domain.
ComparatorPanics(a, b) == ~InDomain(a) \/ ~InDomain(b)

\* ------------------------------------------------- rotation primitives

\* rotate taking the displaced grandchild from the wrong side of r.
rotate_WrongGrandchild(t, c, s) ==
  LET a == (c + 1) \div 2
      r == t.nodes[s].Children[a]
      x == t.nodes[r].Children[a]
  IN  With(SetParent([t EXCEPT !.nodes[s].Children[a] = x], x, s), LAMBDA t2 :
      With([t2 EXCEPT !.nodes[r].Children[1 - a] = s], LAMBDA t3 :
      With([t3 EXCEPT !.nodes[r].Parent = t3.nodes[s].Parent], LAMBDA t4 :
        [t |-> [t4 EXCEPT !.nodes[s].Parent = r], s |-> r])))

\* rotate that leaves the displaced grandchild's Parent as it was.
rotate_NoReparent(t, c, s) ==
  LET a == (c + 1) \div 2
      r == t.nodes[s].Children[a]
      x == t.nodes[r].Children[1 - a]
  IN  With([t EXCEPT !.nodes[s].Children[a] = x], LAMBDA t2 :
      With([t2 EXCEPT !.nodes[r].Children[1 - a] = s], LAMBDA t3 :
      With([t3 EXCEPT !.nodes[r].Parent = t3.nodes[s].Parent], LAMBDA t4 :
        [t |-> [t4 EXCEPT !.nodes[s].Parent = r], s |-> r])))

\* Returns the tree and the node now on top (the Go function's result).
rotate(t, c, s) ==
  LET a == (c + 1) \div 2
      r == t.nodes[s].Children[a]
      x == t.nodes[r].Children[1 - a]
  IN  With(SetParent([t EXCEPT !.nodes[s].Children[a] = x], x, s), LAMBDA t2 :
      With([t2 EXCEPT !.nodes[r].Children[1 - a] = s], LAMBDA t3 :
      With([t3 EXCEPT !.nodes[r].Parent = t3.nodes[s].Parent], LAMBDA t4 :
        [t |-> [t4 EXCEPT !.nodes[s].Parent = r], s |-> r])))

singlerot(t, c, s) ==
  With(rotate([t EXCEPT !.nodes[s].b = 0], c, s), LAMBDA r :
    [t |-> [r.t EXCEPT !.nodes[r.s].b = 0], s |-> r.s])

\* doublerot with the two skewed cases of its switch exchanged.
doublerot_CasesSwapped(t, c, s) ==
  LET a == (c + 1) \div 2
      r == t.nodes[s].Children[a]
  IN  With(rotate(t, -c, r), LAMBDA r1 :
      With(rotate([r1.t EXCEPT !.nodes[s].Children[a] = r1.s], c, s), LAMBDA r2 :
      With(r2.t.nodes[r2.s].b, LAMBDA pb :
      With(IF pb = -c
           THEN [r2.t EXCEPT !.nodes[s].b = -c, !.nodes[r].b = 0]
           ELSE IF pb = c
           THEN [r2.t EXCEPT !.nodes[s].b = 0, !.nodes[r].b = c]
           ELSE [r2.t EXCEPT !.nodes[s].b = 0, !.nodes[r].b = 0], LAMBDA t2 :
        [t |-> [t2 EXCEPT !.nodes[r2.s].b = 0], s |-> r2.s]))))

\* r1 is the inner rotation and r2 the outer one, whose top is p.
doublerot(t, c, s) ==
  LET a == (c + 1) \div 2
      r == t.nodes[s].Children[a]
  IN  With(rotate(t, -c, r), LAMBDA r1 :
      With(rotate([r1.t EXCEPT !.nodes[s].Children[a] = r1.s], c, s), LAMBDA r2 :
      With(r2.t.nodes[r2.s].b, LAMBDA pb :
      With(IF pb = c
           THEN [r2.t EXCEPT !.nodes[s].b = -c, !.nodes[r].b = 0]
           ELSE IF pb = -c
           THEN [r2.t EXCEPT !.nodes[s].b = 0, !.nodes[r].b = c]
           ELSE [r2.t EXCEPT !.nodes[s].b = 0, !.nodes[r].b = 0], LAMBDA t2 :
        [t |-> [t2 EXCEPT !.nodes[r2.s].b = 0], s |-> r2.s]))))

\* ------------------------------------------------------------- insertion

\* putFix that never rotates: a node already heavy on the side that grew
\* stays as it is and reports the growth.
putFix_NoRotation(t0, c, qp) ==
  LET s == Deref(t0, qp)
  IN  IF t0.nodes[s].b = 0
      THEN Result(Note([t0 EXCEPT !.nodes[s].b = c], "putFix", c, s, "grow", TRUE),
                  TRUE)
      ELSE IF t0.nodes[s].b = -c
      THEN Result(Note([t0 EXCEPT !.nodes[s].b = 0], "putFix", c, s, "absorb", FALSE),
                  FALSE)
      ELSE Result(Note(t0, "putFix", c, s, "grow", TRUE), TRUE)

\* putFix that reports growth after a single rotation.
putFix_RotationSignals(t0, c, qp) ==
  LET s == Deref(t0, qp)
  IN  IF t0.nodes[s].b = 0
      THEN Result(Note([t0 EXCEPT !.nodes[s].b = c], "putFix", c, s, "grow", TRUE),
                  TRUE)
      ELSE IF t0.nodes[s].b = -c
      THEN Result(Note([t0 EXCEPT !.nodes[s].b = 0], "putFix", c, s, "absorb", FALSE),
                  FALSE)
      ELSE IF t0.nodes[t0.nodes[s].Children[(c + 1) \div 2]].b = c
      THEN With(singlerot(t0, c, s), LAMBDA r :
             Result(Note(Assign(r.t, qp, r.s), "putFix", c, s, "singlerot", TRUE),
                    TRUE))
      ELSE With(doublerot(t0, c, s), LAMBDA r :
             Result(Note(Assign(r.t, qp, r.s), "putFix", c, s, "doublerot", FALSE),
                    FALSE))

\* putFix that reports growth after the node has absorbed it.
putFix_AbsorbSignals(t0, c, qp) ==
  LET s == Deref(t0, qp)
  IN  IF t0.nodes[s].b = 0
      THEN Result(Note([t0 EXCEPT !.nodes[s].b = c], "putFix", c, s, "grow", TRUE),
                  TRUE)
      ELSE IF t0.nodes[s].b = -c
      THEN Result(Note([t0 EXCEPT !.nodes[s].b = 0], "putFix", c, s, "absorb", TRUE),
                  TRUE)
      ELSE IF t0.nodes[t0.nodes[s].Children[(c + 1) \div 2]].b = c
      THEN With(singlerot(t0, c, s), LAMBDA r :
             Result(Note(Assign(r.t, qp, r.s), "putFix", c, s, "singlerot", FALSE),
                    FALSE))
      ELSE With(doublerot(t0, c, s), LAMBDA r :
             Result(Note(Assign(r.t, qp, r.s), "putFix", c, s, "doublerot", FALSE),
                    FALSE))

putFix(t0, c, qp) ==
  LET s == Deref(t0, qp)
  IN  IF t0.nodes[s].b = 0
      THEN Result(Note([t0 EXCEPT !.nodes[s].b = c], "putFix", c, s, "grow", TRUE),
                  TRUE)
      ELSE IF t0.nodes[s].b = -c
      THEN Result(Note([t0 EXCEPT !.nodes[s].b = 0], "putFix", c, s, "absorb", FALSE),
                  FALSE)
      ELSE IF t0.nodes[t0.nodes[s].Children[(c + 1) \div 2]].b = c
      THEN With(singlerot(t0, c, s), LAMBDA r :
             Result(Note(Assign(r.t, qp, r.s), "putFix", c, s, "singlerot", FALSE),
                    FALSE))
      ELSE With(doublerot(t0, c, s), LAMBDA r :
             Result(Note(Assign(r.t, qp, r.s), "putFix", c, s, "doublerot", FALSE),
                    FALSE))

\* *qp = &Node{Key: key, Value: value, Parent: p} on a tree already counted.
Link(t, qp, id, key, value, p) ==
  Assign([t EXCEPT !.nodes = (id :> NewNode(key, value, p)) @@ @], qp, id)

RECURSIVE put(_, _, _, _, _)
\* put that counts an element also when it overwrites a node in place.
put_OverwriteCounts(t0, key, value, p, qp) ==
  LET q == Deref(t0, qp)
  IN  IF q = Nil
      THEN Result(Link([t0 EXCEPT !.size = @ + 1], qp, Alloc(t0), key, value, p),
                  TRUE)
      ELSE IF ComparatorPanics(key, t0.nodes[q].Key)
      THEN Panic(t0)
      ELSE LET c == Comparator(key, t0.nodes[q].Key)
           IN  IF c = 0
               THEN Result([t0 EXCEPT !.nodes[q].Key = key,
                                      !.nodes[q].Value = value,
                                      !.size = @ + 1], FALSE)
               ELSE With(put(t0, key, value, q, ChildSlot(q, (c + 1) \div 2)),
                         LAMBDA r :
                           IF r.panic THEN r
                           ELSE IF r.ret THEN putFix(r.t, c, qp)
                           ELSE Result(r.t, FALSE))

\* put that reports growth when it has overwritten a node in place.
put_OverwriteGrows(t0, key, value, p, qp) ==
  LET q == Deref(t0, qp)
  IN  IF q = Nil
      THEN Result(Link([t0 EXCEPT !.size = @ + 1], qp, Alloc(t0), key, value, p),
                  TRUE)
      ELSE IF ComparatorPanics(key, t0.nodes[q].Key)
      THEN Panic(t0)
      ELSE LET c == Comparator(key, t0.nodes[q].Key)
           IN  IF c = 0
               THEN Result([t0 EXCEPT !.nodes[q].Key = key,
                                      !.nodes[q].Value = value], TRUE)
               ELSE With(put(t0, key, value, q, ChildSlot(q, (c + 1) \div 2)),
                         LAMBDA r :
                           IF r.panic THEN r
                           ELSE IF r.ret THEN putFix(r.t, c, qp)
                           ELSE Result(r.t, FALSE))

\* c is the comparator's result, and from line 267 on its sign.
put(t0, key, value, p, qp) ==
  LET q == Deref(t0, qp)
  IN  IF q = Nil
      THEN Result(Link([t0 EXCEPT !.size = @ + 1], qp, Alloc(t0), key, value, p),
                  TRUE)
      ELSE IF ComparatorPanics(key, t0.nodes[q].Key)
      THEN Panic(t0)
      ELSE LET c == Comparator(key, t0.nodes[q].Key)
           IN  IF c = 0
               THEN Result([t0 EXCEPT !.nodes[q].Key = key,
                                      !.nodes[q].Value = value], FALSE)
               ELSE With(put(t0, key, value, q, ChildSlot(q, (c + 1) \div 2)),
                         LAMBDA r :
                           IF r.panic THEN r
                           ELSE IF r.ret THEN putFix(r.t, c, qp)
                           ELSE Result(r.t, FALSE))

\* Tree.Put
TreePut(t0, key, value) == put(t0, key, value, Nil, RootSlot)

\* --------------------------------------------------------------- removal

\* removeFix that stops after a single rotation with a skewed heavy child, as
\* putFix does.
removeFix_StopsAfterSinglerot(t0, c, qp) ==
  LET s == Deref(t0, qp)
      a == (c + 1) \div 2
  IN  IF t0.nodes[s].b = 0
      THEN Result(Note([t0 EXCEPT !.nodes[s].b = c], "removeFix", c, s, "skew", FALSE),
                  FALSE)
      ELSE IF t0.nodes[s].b = -c
      THEN Result(Note([t0 EXCEPT !.nodes[s].b = 0], "removeFix", c, s, "level", TRUE),
                  TRUE)
      ELSE IF t0.nodes[t0.nodes[s].Children[a]].b = 0
      THEN With(rotate(t0, c, s), LAMBDA r :
             Result(Note(Assign([r.t EXCEPT !.nodes[r.s].b = -c], qp, r.s),
                         "removeFix", c, s, "rotate", FALSE), FALSE))
      ELSE IF t0.nodes[t0.nodes[s].Children[a]].b = c
      THEN With(singlerot(t0, c, s), LAMBDA r :
             Result(Note(Assign(r.t, qp, r.s), "removeFix", c, s, "singlerot", FALSE),
                    FALSE))
      ELSE With(doublerot(t0, c, s), LAMBDA r :
             Result(Note(Assign(r.t, qp, r.s), "removeFix", c, s, "doublerot", TRUE),
                    TRUE))

\* removeFix that reports a lower subtree after the rotation with a level
\* heavy child.
removeFix_RotateSignals(t0, c, qp) ==
  LET s == Deref(t0, qp)
      a == (c + 1) \div 2
  IN  IF t0.nodes[s].b = 0
      THEN Result(Note([t0 EXCEPT !.nodes[s].b = c], "removeFix", c, s, "skew", FALSE),
                  FALSE)
      ELSE IF t0.nodes[s].b = -c
      THEN Result(Note([t0 EXCEPT !.nodes[s].b = 0], "removeFix", c, s, "level", TRUE),
                  TRUE)
      ELSE IF t0.nodes[t0.nodes[s].Children[a]].b = 0
      THEN With(rotate(t0, c, s), LAMBDA r :
             Result(Note(Assign([r.t EXCEPT !.nodes[r.s].b = -c], qp, r.s),
                         "removeFix", c, s, "rotate", TRUE), TRUE))
      ELSE IF t0.nodes[t0.nodes[s].Children[a]].b = c
      THEN With(singlerot(t0, c, s), LAMBDA r :
             Result(Note(Assign(r.t, qp, r.s), "removeFix", c, s, "singlerot", TRUE),
                    TRUE))
      ELSE With(doublerot(t0, c, s), LAMBDA r :
             Result(Note(Assign(r.t, qp, r.s), "removeFix", c, s, "doublerot", TRUE),
                    TRUE))

\* removeFix that leaves the balance of the promoted child at 0 after the
\* rotation with a level heavy child.
removeFix_RotateKeepsBalance(t0, c, qp) ==
  LET s == Deref(t0, qp)
      a == (c + 1) \div 2
  IN  IF t0.nodes[s].b = 0
      THEN Result(Note([t0 EXCEPT !.nodes[s].b = c], "removeFix", c, s, "skew", FALSE),
                  FALSE)
      ELSE IF t0.nodes[s].b = -c
      THEN Result(Note([t0 EXCEPT !.nodes[s].b = 0], "removeFix", c, s, "level", TRUE),
                  TRUE)
      ELSE IF t0.nodes[t0.nodes[s].Children[a]].b = 0
      THEN With(rotate(t0, c, s), LAMBDA r :
             Result(Note(Assign(r.t, qp, r.s),
                         "removeFix", c, s, "rotate", FALSE), FALSE))
      ELSE IF t0.nodes[t0.nodes[s].Children[a]].b = c
      THEN With(singlerot(t0, c, s), LAMBDA r :
             Result(Note(Assign(r.t, qp, r.s), "removeFix", c, s, "singlerot", TRUE),
                    TRUE))
      ELSE With(doublerot(t0, c, s), LAMBDA r :
             Result(Note(Assign(r.t, qp, r.s), "removeFix", c, s, "doublerot", TRUE),
                    TRUE))

\* removeFix that reports no lower subtree after a double rotation.
removeFix_StopsAfterDoublerot(t0, c, qp) ==
  LET s == Deref(t0, qp)
      a == (c + 1) \div 2
  IN  IF t0.nodes[s].b = 0
      THEN Result(Note([t0 EXCEPT !.nodes[s].b = c], "removeFix", c, s, "skew", FALSE),
                  FALSE)
      ELSE IF t0.nodes[s].b = -c
      THEN Result(Note([t0 EXCEPT !.nodes[s].b = 0], "removeFix", c, s, "level", TRUE),
                  TRUE)
      ELSE IF t0.nodes[t0.nodes[s].Children[a]].b = 0
      THEN With(rotate(t0, c, s), LAMBDA r :
             Result(Note(Assign([r.t EXCEPT !.nodes[r.s].b = -c], qp, r.s),
                         "removeFix", c, s, "rotate", FALSE), FALSE))
      ELSE IF t0.nodes[t0.nodes[s].Children[a]].b = c
      THEN With(singlerot(t0, c, s), LAMBDA r :
             Result(Note(Assign(r.t, qp, r.s), "removeFix", c, s, "singlerot", TRUE),
                    TRUE))
      ELSE With(doublerot(t0, c, s), LAMBDA r :
             Result(Note(Assign(r.t, qp, r.s), "removeFix", c, s, "doublerot", FALSE),
                    FALSE))

\* removeFix that skews a level node toward the side that shrank.
removeFix_SkewsTowardShrunk(t0, c, qp) ==
  LET s == Deref(t0, qp)
      a == (c + 1) \div 2
  IN  IF t0.nodes[s].b = 0
      THEN Result(Note([t0 EXCEPT !.nodes[s].b = -c], "removeFix", c, s, "skew", FALSE),
                  FALSE)
      ELSE IF t0.nodes[s].b = -c
      THEN Result(Note([t0 EXCEPT !.nodes[s].b = 0], "removeFix", c, s, "level", TRUE),
                  TRUE)
      ELSE IF t0.nodes[t0.nodes[s].Children[a]].b = 0
      THEN With(rotate(t0, c, s), LAMBDA r :
             Result(Note(Assign([r.t EXCEPT !.nodes[r.s].b = -c], qp, r.s),
                         "removeFix", c, s, "rotate", FALSE), FALSE))
      ELSE IF t0.nodes[t0.nodes[s].Children[a]].b = c
      THEN With(singlerot(t0, c, s), LAMBDA r :
             Result(Note(Assign(r.t, qp, r.s), "removeFix", c, s, "singlerot", TRUE),
                    TRUE))
      ELSE With(doublerot(t0, c, s), LAMBDA r :
             Result(Note(Assign(r.t, qp, r.s), "removeFix", c, s, "doublerot", TRUE),
                    TRUE))

removeFix(t0, c, qp) ==
  LET s == Deref(t0, qp)
      a == (c + 1) \div 2
  IN  IF t0.nodes[s].b = 0
      THEN Result(Note([t0 EXCEPT !.nodes[s].b = c], "removeFix", c, s, "skew", FALSE),
                  FALSE)
      ELSE IF t0.nodes[s].b = -c
      THEN Result(Note([t0 EXCEPT !.nodes[s].b = 0], "removeFix", c, s, "level", TRUE),
                  TRUE)
      ELSE IF t0.nodes[t0.nodes[s].Children[a]].b = 0
      THEN With(rotate(t0, c, s), LAMBDA r :
             Result(Note(Assign([r.t EXCEPT !.nodes[r.s].b = -c], qp, r.s),
                         "removeFix", c, s, "rotate", FALSE), FALSE))
      ELSE IF t0.nodes[t0.nodes[s].Children[a]].b = c
      THEN With(singlerot(t0, c, s), LAMBDA r :
             Result(Note(Assign(r.t, qp, r.s), "removeFix", c, s, "singlerot", TRUE),
                    TRUE))
      ELSE With(doublerot(t0, c, s), LAMBDA r :
             Result(Note(Assign(r.t, qp, r.s), "removeFix", c, s, "doublerot", TRUE),
                    TRUE))

\* q is unlinked: its child x, re-parented, takes its slot.
Splice(t, qp, q, x) == Assign(SetParent(t, x, t.nodes[q].Parent), qp, x)

RECURSIVE removeMin(_, _, _)
\* removeMin that hands the minimum's key over and not its value.
removeMin_KeyOnly(t0, qp, dst) ==
  LET q == Deref(t0, qp)
  IN  IF t0.nodes[q].Children[0] = Nil
      THEN With([t0 EXCEPT !.nodes[dst].Key = t0.nodes[q].Key], LAMBDA t2 :
             Result(Splice(t2, qp, q, t2.nodes[q].Children[1]), TRUE))
      ELSE With(removeMin(t0, ChildSlot(q, 0), dst), LAMBDA r :
             IF r.ret THEN removeFix(r.t, 1, qp) ELSE Result(r.t, FALSE))

\* removeMin that empties the minimum's slot, dropping its right child.
removeMin_DropsRightChild(t0, qp, dst) ==
  LET q == Deref(t0, qp)
  IN  IF t0.nodes[q].Children[0] = Nil
      THEN With([t0 EXCEPT !.nodes[dst].Key = t0.nodes[q].Key], LAMBDA t1 :
           With([t1 EXCEPT !.nodes[dst].Value = t1.nodes[q].Value], LAMBDA t2 :
             Result(Assign(t2, qp, Nil), TRUE)))
      ELSE With(removeMin(t0, ChildSlot(q, 0), dst), LAMBDA r :
             IF r.ret THEN removeFix(r.t, 1, qp) ELSE Result(r.t, FALSE))

\* dst is the node whose Key and Value fields minKey and minVal point to.
removeMin(t0, qp, dst) ==
  LET q == Deref(t0, qp)
  IN  IF t0.nodes[q].Children[0] = Nil
      THEN With([t0 EXCEPT !.nodes[dst].Key = t0.nodes[q].Key], LAMBDA t1 :
           With([t1 EXCEPT !.nodes[dst].Value = t1.nodes[q].Value], LAMBDA t2 :
             Result(Splice(t2, qp, q, t2.nodes[q].Children[1]), TRUE)))
      ELSE With(removeMin(t0, ChildSlot(q, 0), dst), LAMBDA r :
             IF r.ret THEN removeFix(r.t, 1, qp) ELSE Result(r.t, FALSE))

\* removeHere that leaves the Parent of the left child it moves up as it was.
removeHere_KeepsParent(t1, q, qp) ==
  IF t1.nodes[q].Children[1] = Nil
  THEN Result(Assign(t1, qp, t1.nodes[q].Children[0]), TRUE)
  ELSE With(removeMin(t1, ChildSlot(q, 1), q), LAMBDA r :
         IF r.ret THEN removeFix(r.t, -1, qp) ELSE Result(r.t, FALSE))

\* The branch of remove for the node q whose key compares equal (t1 is the
\* tree with size already decremented).
removeHere(t1, q, qp) ==
  IF t1.nodes[q].Children[1] = Nil
  THEN Result(Splice(t1, qp, q, t1.nodes[q].Children[0]), TRUE)
  ELSE With(removeMin(t1, ChildSlot(q, 1), q), LAMBDA r :
         IF r.ret THEN removeFix(r.t, -1, qp) ELSE Result(r.t, FALSE))

RECURSIVE remove(_, _, _)
\* remove that takes an element off the count before it has found the key.
remove_CountsAbsent(t0, key, qp) ==
  LET q == Deref(t0, qp)
  IN  IF q = Nil
      THEN Result([t0 EXCEPT !.size = @ - 1], FALSE)
      ELSE IF ComparatorPanics(key, t0.nodes[q].Key)
      THEN Panic(t0)
      ELSE LET c == Comparator(key, t0.nodes[q].Key)
           IN  IF c = 0
               THEN removeHere([t0 EXCEPT !.size = @ - 1], q, qp)
               ELSE With(remove(t0, key, ChildSlot(q, (c + 1) \div 2)), LAMBDA r :
                      IF r.panic THEN r
                      ELSE IF r.ret THEN removeFix(r.t, -c, qp)
                      ELSE Result(r.t, FALSE))

\* c is the comparator's result, and from line 304 on its sign.
remove(t0, key, qp) ==
  LET q == Deref(t0, qp)
  IN  IF q = Nil
      THEN Result(t0, FALSE)
      ELSE IF ComparatorPanics(key, t0.nodes[q].Key)
      THEN Panic(t0)
      ELSE LET c == Comparator(key, t0.nodes[q].Key)
           IN  IF c = 0
               THEN removeHere([t0 EXCEPT !.size = @ - 1], q, qp)
               ELSE With(remove(t0, key, ChildSlot(q, (c + 1) \div 2)), LAMBDA r :
                      IF r.panic THEN r
                      ELSE IF r.ret THEN removeFix(r.t, -c, qp)
                      ELSE Result(r.t, FALSE))

\* Tree.Remove
TreeRemove(t0, key) == remove(t0, key, RootSlot)

\* Clear that forgets the element count.
TreeClear_KeepsSize(t0) == [t0 EXCEPT !.Root = Nil]

\* Clear that resets the element count and keeps the root.
TreeClear_KeepsRoot(t0) == [t0 EXCEPT !.size = 0]

\* Tree.Clear
TreeClear(t0) == [t0 EXCEPT !.Root = Nil, !.size = 0]

\* ---------------------------------------------------------------- queries

\* Tree.Empty
Empty(t) == t.size = 0

\* Tree.Size
Size(t) == t.size

\* The loop of Tree.Get from node n on.
RECURSIVE GetFrom(_, _, _)
GetFrom(t, key, n) ==
  IF n = Nil
  THEN [value |-> NoValue, found |-> FALSE, panic |-> FALSE]
  ELSE IF ComparatorPanics(key, t.nodes[n].Key)
  THEN [value |-> NoValue, found |-> FALSE, panic |-> TRUE]
  ELSE LET cmp == Comparator(key, t.nodes[n].Key)
       IN  IF cmp = 0
           THEN [value |-> t.nodes[n].Value, found |-> TRUE, panic |-> FALSE]
           ELSE IF cmp < 0
           THEN GetFrom(t, key, t.nodes[n].Children[0])
           ELSE GetFrom(t, key, t.nodes[n].Children[1])

\* Tree.Get
TreeGet(t, key) == GetFrom(t, key, t.Root)

\* The loop of Tree.Floor from node n on; floor and found are its locals.
RECURSIVE FloorFrom(_, _, _, _, _)
\* The loop of Floor that goes right without recording the node it leaves.
FloorFrom_NoCandidate(t, key, n, floor, found) ==
  IF n = Nil
  THEN IF found
       THEN [node |-> floor, found |-> TRUE, panic |-> FALSE]
       ELSE [node |-> Nil, found |-> FALSE, panic |-> FALSE]
  ELSE IF ComparatorPanics(key, t.nodes[n].Key)
  THEN [node |-> Nil, found |-> FALSE, panic |-> TRUE]
  ELSE LET c == Comparator(key, t.nodes[n].Key)
       IN  IF c = 0
           THEN [node |-> n, found |-> TRUE, panic |-> FALSE]
           ELSE IF c < 0
           THEN FloorFrom(t, key, t.nodes[n].Children[0], floor, found)
           ELSE FloorFrom(t, key, t.nodes[n].Children[1], floor, found)

FloorFrom(t, key, n, floor, found) ==
  IF n = Nil
  THEN IF found
       THEN [node |-> floor, found |-> TRUE, panic |-> FALSE]
       ELSE [node |-> Nil, found |-> FALSE, panic |-> FALSE]
  ELSE IF ComparatorPanics(key, t.nodes[n].Key)
  THEN [node |-> Nil, found |-> FALSE, panic |-> TRUE]
  ELSE LET c == Comparator(key, t.nodes[n].Key)
       IN  IF c = 0
           THEN [node |-> n, found |-> TRUE, panic |-> FALSE]
           ELSE IF c < 0
           THEN FloorFrom(t, key, t.nodes[n].Children[0], floor, found)
           ELSE FloorFrom(t, key, t.nodes[n].Children[1], n, TRUE)

\* Tree.Floor
TreeFloor(t, key) == FloorFrom(t, key, t.Root, Nil, FALSE)

\* The loop of Tree.Ceiling from node n on.
RECURSIVE CeilingFrom(_, _, _, _, _)
CeilingFrom(t, key, n, floor, found) ==
  IF n = Nil
  THEN IF found
       THEN [node |-> floor, found |-> TRUE, panic |-> FALSE]
       ELSE [node |-> Nil, found |-> FALSE, panic |-> FALSE]
  ELSE IF ComparatorPanics(key, t.nodes[n].Key)
  THEN [node |-> Nil, found |-> FALSE, panic |-> TRUE]
  ELSE LET c == Comparator(key, t.nodes[n].Key)
       IN  IF c = 0
           THEN [node |-> n, found |-> TRUE, panic |-> FALSE]
           ELSE IF c < 0
           THEN CeilingFrom(t, key, t.nodes[n].Children[0], n, TRUE)
           ELSE CeilingFrom(t, key, t.nodes[n].Children[1], floor, found)

\* Tree.Ceiling
TreeCeiling(t, key) == CeilingFrom(t, key, t.Root, Nil, FALSE)

\* for n.Children[d] != nil { n = n.Children[d] }: the loop of bottom, and of
\* walk1 below the child it steps to.
RECURSIVE Descend(_, _, _)
Descend(t, n, d) ==
  IF t.nodes[n].Children[d] # Nil
  THEN Descend(t, t.nodes[n].Children[d], d)
  ELSE n

\* bottom that stops one level below the root.
bottom_OneStep(t, d) ==
  IF t.Root = Nil THEN Nil
  ELSE IF t.nodes[t.Root].Children[d] # Nil THEN t.nodes[t.Root].Children[d]
  ELSE t.Root

bottom(t, d) == IF t.Root = Nil THEN Nil ELSE Descend(t, t.Root, d)

\* Tree.Left
TreeLeft(t) == bottom(t, 0)

\* Tree.Right
TreeRight(t) == bottom(t, 1)

\* for p != nil && p.Children[a] == n { n = p; p = p.Parent }; return p
RECURSIVE Climb(_, _, _, _)
Climb(t, n, p, a) ==
  IF p # Nil /\ t.nodes[p].Children[a] = n
  THEN Climb(t, p, t.nodes[p].Parent, a)
  ELSE p

\* walk1 that climbs while it comes from the other side.
walk1_ClimbsWrongSide(t, n, a) ==
  IF n = Nil THEN Nil
  ELSE IF t.nodes[n].Children[a] # Nil
  THEN Descend(t, t.nodes[n].Children[a], 1 - a)
  ELSE Climb(t, n, t.nodes[n].Parent, 1 - a)

walk1(t, n, a) ==
  IF n = Nil THEN Nil
  ELSE IF t.nodes[n].Children[a] # Nil
  THEN Descend(t, t.nodes[n].Children[a], 1 - a)
  ELSE Climb(t, n, t.nodes[n].Parent, a)

\* Node.Prev
NodePrev(t, n) == walk1(t, n, 0)

\* Node.Next
NodeNext(t, n) == walk1(t, n, 1)

\* ------------------------------------------------------------------ JSON

\* json.Unmarshal decodes the member names into Go strings: keys of the domain
\* of a tree built with the string comparator (JKeys stands for them there),
\* and keys outside the domain of a tree built with any other comparator
\* (ForeignKeys stands for them there).
ForeignKeys == {BadKey, BadKey - 1}

\* The texts FromJSON is called with: one that is no JSON object, and the
\* objects of at most MaxMembers members, a member being a name and a value
\* (a name may occur twice).
ObjectsOver(names) ==
  UNION { [1..n -> names \X Values] : n \in 0..MaxMembers }

JSONTexts ==
  {[valid |-> FALSE, members |-> <<>>]}
    \cup { [valid |-> TRUE, members |-> m] :
             m \in ObjectsOver(JKeys) \cup ObjectsOver(ForeignKeys) }

\* The value the decoder keeps for name k: that of its last member.
LastValue(members, k) ==
  members[CHOOSE i \in 1..Len(members) :
            /\ members[i][1] = k
            /\ \A j \in (i + 1)..Len(members) : members[j][1] # k][2]

\* json.Unmarshal(data, &elements) on an empty map.
Unmarshal(data) ==
  IF ~data.valid
  THEN [err |-> TRUE, elements |-> <<>>]
  ELSE [err |-> FALSE,
        elements |-> [k \in { data.members[i][1] : i \in 1..Len(data.members) }
                        |-> LastValue(data.members, k)]]

\* The orders in which range may go through the keys of a map.
RangeOrders(elements) ==
  { o \in [1..Cardinality(DOMAIN elements) -> DOMAIN elements] :
      \A i, j \in DOMAIN o : i # j => o[i] # o[j] }

\* for key, value := range elements { tree.Put(key, value) }, from the i-th
\* key of order on; a panicking Put ends it.
RECURSIVE PutEach(_, _, _, _)
PutEach(t, elements, order, i) ==
  IF i > Len(order)
  THEN [t |-> t, panic |-> FALSE]
  ELSE With(TreePut(t, order[i], elements[order[i]]), LAMBDA r :
         IF r.panic THEN [t |-> r.t, panic |-> TRUE]
         ELSE PutEach(r.t, elements, order, i + 1))

\* Tree.FromJSON; d is what Unmarshal returned.
TreeFromJSON(t, d, order) ==
  IF d.err
  THEN [t |-> t, err |-> TRUE, panic |-> FALSE]
  ELSE With(PutEach(TreeClear(t), d.elements, order, 1), LAMBDA r :
         [t |-> r.t, err |-> FALSE, panic |-> r.panic])

\* ------------------------------------------------------------- the heap

\* The nodes of the subtree at n in symmetric order, following Children
\* pointers (at most fuel levels deep).
RECURSIVE InOrder(_, _, _)
InOrder(t, n, fuel) ==
  IF n = Nil \/ fuel = 0
  THEN <<>>
  ELSE InOrder(t, t.nodes[n].Children[0], fuel - 1) \o <<n>>
         \o InOrder(t, t.nodes[n].Children[1], fuel - 1)

Walk(t) == InOrder(t, t.Root, Cardinality(DOMAIN t.nodes))

\* A pointer to a Node that no Children pointer reaches any more.
Dangling == -1

\* Addresses are only ever compared for equality, so a heap is a heap up to
\* renaming of its addresses.  Between two calls the model keeps one
\* representative: the nodes that Root reaches through Children pointers (Go's
\* collector reclaims the others, no *Node being kept across calls), each
\* named by its rank in the symmetric order, and an empty log.
\* The new name of address p: its rank in seq, the live nodes in symmetric
\* order.
Rename(seq, p) ==
  IF p = Nil THEN Nil
  ELSE IF \E i \in 1..Len(seq) : seq[i] = p
  THEN CHOOSE i \in 1..Len(seq) : seq[i] = p
  ELSE Dangling

Canon(t) ==
  With(Walk(t), LAMBDA seq :
    [nodes |-> [i \in 1..Len(seq) |->
                  [Key |-> t.nodes[seq[i]].Key,
                   Value |-> t.nodes[seq[i]].Value,
                   Parent |-> Rename(seq, t.nodes[seq[i]].Parent),
                   Children |-> [a \in {0, 1} |->
                                   Rename(seq, t.nodes[seq[i]].Children[a])],
                   b |-> t.nodes[seq[i]].b]],
     Root |-> Rename(seq, t.Root),
     size |-> t.size,
     log |-> <<>>])

\* ----------------------------------------------------------- binary heap

\* arraylist.List, by its elements[:size], and the methods the heap calls.
ListNew == <<>>

ListAdd(l, v) == Append(l, v)

ListSize(l) == Len(l)

ListGet(l, index) ==
  IF index >= 0 /\ index < Len(l)
  THEN [value |-> l[index + 1], ok |-> TRUE]
  ELSE [value |-> NoValue, ok |-> FALSE]

ListSwap(l, i, j) ==
  IF i >= 0 /\ i < Len(l) /\ j >= 0 /\ j < Len(l)
  THEN [l EXCEPT ![i + 1] = l[j + 1], ![j + 1] = l[i + 1]]
  ELSE l

ListRemove(l, index) ==
  IF index >= 0 /\ index < Len(l)
  THEN [i \in 1..(Len(l) - 1) |-> IF i <= index THEN l[i] ELSE l[i + 1]]
  ELSE l

\* binaryheap.NewWithIntComparator
NewHeap == [list |-> ListNew]

\* The loop of bubbleUp, at index.
RECURSIVE bubbleUpFrom(_, _)
\* The loop of bubbleUp that gives up after one exchange.
bubbleUpFrom_OneLevel(l, index) ==
  IF index > 0 /\ index = Len(l) - 1
  THEN IF Comparator(ListGet(l, (index - 1) \div 2).value,
                     ListGet(l, index).value) <= 0
       THEN l
       ELSE bubbleUpFrom(ListSwap(l, index, (index - 1) \div 2),
                         (index - 1) \div 2)
  ELSE l

bubbleUpFrom(l, index) ==
  IF index > 0
  THEN IF Comparator(ListGet(l, (index - 1) \div 2).value,
                     ListGet(l, index).value) <= 0
       THEN l
       ELSE bubbleUpFrom(ListSwap(l, index, (index - 1) \div 2),
                         (index - 1) \div 2)
  ELSE l

bubbleUp(l) == bubbleUpFrom(l, ListSize(l) - 1)

\* The child of index to compare it with: the right one if it exists and the
\* left one compares greater, else the left one.
SmallerIndex(l, index) ==
  IF 2 * index + 2 < ListSize(l)
       /\ Comparator(ListGet(l, 2 * index + 1).value,
                     ListGet(l, 2 * index + 2).value) > 0
  THEN 2 * index + 2
  ELSE 2 * index + 1

RECURSIVE bubbleDownIndex(_, _)
\* bubbleDownIndex that only ever looks at the left child.
bubbleDownIndex_LeftOnly(l, index) ==
  IF 2 * index + 1 < ListSize(l)
  THEN IF Comparator(ListGet(l, index).value,
                     ListGet(l, 2 * index + 1).value) > 0
       THEN bubbleDownIndex(ListSwap(l, index, 2 * index + 1), 2 * index + 1)
       ELSE l
  ELSE l

bubbleDownIndex(l, index) ==
  IF 2 * index + 1 < ListSize(l)
  THEN IF Comparator(ListGet(l, index).value,
                     ListGet(l, SmallerIndex(l, index)).value) > 0
       THEN bubbleDownIndex(ListSwap(l, index, SmallerIndex(l, index)),
                            SmallerIndex(l, index))
       ELSE l
  ELSE l

bubbleDown(l) == bubbleDownIndex(l, 0)

\* for _, value := range values { heap.list.Add(value) }
RECURSIVE AddAll(_, _, _)
AddAll(l, values, i) ==
  IF i > Len(values) THEN l ELSE AddAll(ListAdd(l, values[i]), values, i + 1)

\* for i := size; i >= 0; i-- { heap.bubbleDownIndex(i) }
RECURSIVE BubbleDownFrom(_, _)
BubbleDownFrom(l, i) ==
  IF i < 0 THEN l ELSE BubbleDownFrom(bubbleDownIndex(l, i), i - 1)

\* Heap.Push(values...)
HeapPush(h, values) ==
  IF Len(values) = 1
  THEN [h EXCEPT !.list = bubbleUp(ListAdd(h.list, values[1]))]
  ELSE With(AddAll(h.list, values, 1), LAMBDA l :
         [h EXCEPT !.list = BubbleDownFrom(l, ListSize(l) \div 2 + 1)])

\* Heap.Pop: the heap it leaves, and what it returns.
HeapPop(h) ==
  IF ~ListGet(h.list, 0).ok
  THEN [h |-> h, value |-> NoValue, ok |-> FALSE]
  ELSE [h |-> [h EXCEPT !.list =
                 bubbleDown(ListRemove(ListSwap(h.list, 0, ListSize(h.list) - 1),
                                       ListSize(h.list) - 1))],
        value |-> ListGet(h.list, 0).value,
        ok |-> TRUE]

\* Heap.Peek
HeapPeek(h) == ListGet(h.list, 0)

\* Heap.Clear
HeapClear(h) == [h EXCEPT !.list = ListNew]

\* Heap.Size
HeapSize(h) == ListSize(h.list)

\* The texts given to Heap.FromJSON: the arrays of elements, which decode,
\* and a text that does not.
JSONArrays ==
  { [valid |-> TRUE, elements |-> l] :
      l \in UNION { [1..n -> Elements] : n \in 0..MaxArray } }

HeapTexts == JSONArrays \cup {[valid |-> FALSE, elements |-> <<>>]}

\* arraylist List.FromJSON: json.Unmarshal(data, &list.elements) makes the
\* decoded array the list's elements, in the array's order, and the size is
\* set to their number; on an error the list is left as it was.
ListFromJSON(l, data) ==
  IF data.valid
  THEN [list |-> data.elements, err |-> FALSE]
  ELSE [list |-> l, err |-> TRUE]

\* Heap.FromJSON
HeapFromJSON(h, data) ==
  With(ListFromJSON(h.list, data), LAMBDA r :
    [h |-> [h EXCEPT !.list = r.list], err |-> r.err])

\* ------------------------------------------------------------ containers

\* A container is its values field, a slice, and the memory slices point
\* into: mem[a] is the array at address a.  shared tells what Values() returns:
\* the values field itself (ContainerTest) or a slice filled afresh (as
\* Tree.Values does).
ContainerOf(values, shared) ==
  [mem |-> <<values>>, values |-> 1, shared |-> shared]

NewContainer == ContainerOf(<<>>, TRUE)

\* container.Values(): the memory after the call and the slice returned.
ContainerValues(c) ==
  IF c.shared
  THEN [mem |-> c.mem, slice |-> c.values]
  ELSE [mem |-> Append(c.mem, c.mem[c.values]), slice |-> Len(c.mem) + 1]

\* s with x put before its first element that compares greater.
RECURSIVE InsertSorted(_, _)
InsertSorted(s, x) ==
  IF s = <<>> THEN <<x>>
  ELSE IF Comparator(x, Head(s)) < 0 THEN <<x>> \o s
  ELSE <<Head(s)>> \o InsertSorted(Tail(s), x)

RECURSIVE SortedSeq(_)
SortedSeq(s) ==
  IF s = <<>> THEN <<>> ELSE InsertSorted(SortedSeq(Tail(s)), Head(s))

\* utils.Sort(values, comparator): sorts the array of the slice in place.
Sort(mem, slice) == [mem EXCEPT ![slice] = SortedSeq(@)]

\* GetSortedValues(container, comparator): the memory it leaves and the slice
\* it returns.
GetSortedValues(c) ==
  With(ContainerValues(c), LAMBDA v :
    IF Len(v.mem[v.slice]) < 2
    THEN v
    ELSE [mem |-> Sort(v.mem, v.slice), slice |-> v.slice])

\* ----------------------------------------------------------------- state

\* tree: the Tree object.  panicked: a comparison has aborted the process.
\* ret: what the last call returned (NoRet after a call that returns nothing).
\* model: the abstract key-to-value map the same calls build, run side by side
\* with the tree.
VARIABLES tree, panicked, ret, model

\* heap: a binaryheap.Heap (its list).  container: a containers.Container and
\* the memory its slices point into.
VARIABLES heap, container

vars == <<tree, panicked, ret, model, heap, container>>

\* What the calls on the tree leave alone.
others == <<heap, container>>

NoRet == [op |-> "none"]

Init ==
  /\ tree = EmptyTree
  /\ panicked = FALSE
  /\ ret = NoRet
  /\ model = <<>>
  /\ heap = NewHeap
  /\ container = NewContainer

Put(k, v) ==
  /\ ~panicked
  /\ UNCHANGED others
  /\ With(TreePut(tree, k, v), LAMBDA r :
         /\ tree' = Canon(r.t)
         /\ panicked' = r.panic
         /\ model' = IF r.panic THEN model ELSE (k :> v) @@ model)
  /\ ret' = NoRet

Remove(k) ==
  /\ ~panicked
  /\ UNCHANGED others
  /\ With(TreeRemove(tree, k), LAMBDA r :
         /\ tree' = Canon(r.t)
         /\ panicked' = r.panic
         /\ model' = IF r.panic THEN model
                     ELSE [x \in DOMAIN model \ {k} |-> model[x]])
  /\ ret' = NoRet

Clear ==
  /\ ~panicked
  /\ UNCHANGED others
  /\ tree' = Canon(TreeClear(tree))
  /\ model' = <<>>
  /\ ret' = NoRet
  /\ UNCHANGED panicked

Get(k) ==
  /\ ~panicked
  /\ UNCHANGED others
  /\ With(TreeGet(tree, k), LAMBDA r :
         /\ panicked' = r.panic
         /\ ret' = [op |-> "Get", key |-> k, value |-> r.value, found |-> r.found])
  /\ UNCHANGED <<tree, model>>

Floor(k) ==
  /\ ~panicked
  /\ UNCHANGED others
  /\ With(TreeFloor(tree, k), LAMBDA r :
         /\ panicked' = r.panic
         /\ ret' = [op |-> "Floor", key |-> k, node |-> r.node, found |-> r.found])
  /\ UNCHANGED <<tree, model>>

Ceiling(k) ==
  /\ ~panicked
  /\ UNCHANGED others
  /\ With(TreeCeiling(tree, k), LAMBDA r :
         /\ panicked' = r.panic
         /\ ret' = [op |-> "Ceiling", key |-> k, node |-> r.node, found |-> r.found])
  /\ UNCHANGED <<tree, model>>

\* A walk's record: the call made last, the node it returned, and the nodes
\* the walk has returned so far.
Visit(op, seq, n) ==
  [op |-> op, node |-> n, seq |-> IF n = Nil THEN seq ELSE Append(seq, n)]

Left ==
  /\ ~panicked
  /\ UNCHANGED others
  /\ ret' = Visit("Left", <<>>, TreeLeft(tree))
  /\ UNCHANGED <<tree, panicked, model>>

Right ==
  /\ ~panicked
  /\ UNCHANGED others
  /\ ret' = Visit("Right", <<>>, TreeRight(tree))
  /\ UNCHANGED <<tree, panicked, model>>

\* n.Next() on the node the forward walk is at (nil included).
StepNext ==
  /\ ~panicked
  /\ UNCHANGED others
  /\ ret.op \in {"Left", "Next"}
  /\ Len(ret.seq) <= tree.size
  /\ ret' = Visit("Next", ret.seq, NodeNext(tree, ret.node))
  /\ UNCHANGED <<tree, panicked, model>>

\* n.Prev() on the node the backward walk is at (nil included).
StepPrev ==
  /\ ~panicked
  /\ UNCHANGED others
  /\ ret.op \in {"Right", "Prev"}
  /\ Len(ret.seq) <= tree.size
  /\ ret' = Visit("Prev", ret.seq, NodePrev(tree, ret.node))
  /\ UNCHANGED <<tree, panicked, model>>

\* ret keeps the error returned and the map that was decoded.
FromJSON(data, order) ==
  /\ ~panicked
  /\ UNCHANGED others
  /\ With(TreeFromJSON(tree, Unmarshal(data), order), LAMBDA r :
         /\ tree' = Canon(r.t)
         /\ panicked' = r.panic
         /\ model' = IF r.err \/ r.panic THEN model ELSE Unmarshal(data).elements
         /\ ret' = [op |-> "FromJSON", err |-> r.err,
                    elements |-> Unmarshal(data).elements])

\* What the calls on the heap leave alone.
notHeap == <<tree, panicked, model, container>>

\* The argument lists of Push: none, one or several elements.
PushArgs == UNION { [1..n -> Elements] : n \in 0..MaxPush }

Push(values) ==
  /\ HeapSize(heap) + Len(values) <= MaxHeapSize
  /\ heap' = HeapPush(heap, values)
  /\ ret' = NoRet
  /\ UNCHANGED notHeap

Pop ==
  /\ heap' = HeapPop(heap).h
  /\ ret' = [op |-> "Pop", value |-> HeapPop(heap).value, ok |-> HeapPop(heap).ok]
  /\ UNCHANGED notHeap

Peek ==
  /\ ret' = [op |-> "Peek", value |-> HeapPeek(heap).value, ok |-> HeapPeek(heap).ok]
  /\ UNCHANGED heap
  /\ UNCHANGED notHeap

ClearHeap ==
  /\ heap' = HeapClear(heap)
  /\ ret' = NoRet
  /\ UNCHANGED notHeap

LoadHeap(data) ==
  /\ heap' = HeapFromJSON(heap, data).h
  /\ ret' = [op |-> "HeapFromJSON", err |-> HeapFromJSON(heap, data).err]
  /\ UNCHANGED notHeap

\* What the calls on the container leave alone.
notContainer == <<tree, panicked, model, heap>>

\* The element lists a container is built with.
ValueLists == UNION { [1..n -> Elements] : n \in 0..MaxValues }

\* container := ContainerTest{values: values}, or a container whose Values()
\* copies.
MakeContainer(values, shared) ==
  /\ container' = ContainerOf(values, shared)
  /\ ret' = NoRet
  /\ UNCHANGED notContainer

\* ret keeps the elements of the slice returned, and the elements Values()
\* gave when the call began.  The arrays nothing points to any more are
\* dropped.
SortedValues ==
  /\ With(GetSortedValues(container), LAMBDA r :
       /\ container' = ContainerOf(r.mem[container.values], container.shared)
       /\ ret' = [op |-> "GetSortedValues",
                  values |-> r.mem[r.slice],
                  before |-> container.mem[container.values]])
  /\ UNCHANGED notContainer

\* The mutating calls, with keys of the comparator's domain.
Next ==
  \/ \E k \in Keys, v \in Values : Put(k, v)
  \/ \E k \in Keys : Remove(k)
  \/ Clear

Spec == Init /\ [][Next]_vars

\* The mutating and the read-only calls, with keys of the comparator's domain.
NextQuery ==
  \/ \E k \in QKeys, v \in Values : Put(k, v)
  \/ \E k \in QKeys : Remove(k)
  \/ Clear
  \/ \E k \in QueryKeys : Get(k)
  \/ \E k \in QueryKeys : Floor(k)
  \/ \E k \in QueryKeys : Ceiling(k)

SpecQuery == Init /\ [][NextQuery]_vars

\* The calls that compare keys, also with a key outside the comparator's domain.
NextDomain ==
  \/ \E k \in QKeys \cup {BadKey}, v \in Values : Put(k, v)
  \/ \E k \in QKeys \cup {BadKey} : Remove(k)
  \/ \E k \in QKeys \cup {BadKey} : Get(k)

SpecDomain == Init /\ [][NextDomain]_vars

\* The mutating calls and the walks over the tree they leave.
NextWalk ==
  \/ \E k \in QKeys, v \in Values : Put(k, v)
  \/ \E k \in QKeys : Remove(k)
  \/ Clear
  \/ Left
  \/ Right
  \/ StepNext
  \/ StepPrev

SpecWalk == Init /\ [][NextWalk]_vars

\* Put and Remove with keys of the comparator's domain, and FromJSON.
NextJSON ==
  \/ \E k \in JKeys, v \in Values : Put(k, v)
  \/ \E k \in JKeys : Remove(k)
  \/ \E data \in JSONTexts :
       \E order \in RangeOrders(Unmarshal(data).elements) : FromJSON(data, order)

SpecJSON == Init /\ [][NextJSON]_vars

\* The calls on the binary heap.
NextHeap ==
  \/ \E values \in PushArgs : Push(values)
  \/ Pop
  \/ Peek
  \/ ClearHeap

SpecHeap == Init /\ [][NextHeap]_vars

\* A heap that is also loaded from JSON texts.
NextHeapJSON ==
  \/ \E data \in HeapTexts : LoadHeap(data)
  \/ \E values \in PushArgs : Push(values)
  \/ Pop
  \/ Peek

SpecHeapJSON == Init /\ [][NextHeapJSON]_vars

\* Building a container and sorting its values.
NextContainer ==
  \/ \E values \in ValueLists, shared \in BOOLEAN : MakeContainer(values, shared)
  \/ SortedValues

SpecContainer == Init /\ [][NextContainer]_vars

\* Put and Remove alone, with more keys and one value.
NextDeep ==
  \/ \E k \in DeepKeys : Put(k, "v1")
  \/ \E k \in DeepKeys : Remove(k)

SpecDeep == Init /\ [][NextDeep]_vars

\* ---------------------------------------------------- what the claims read

\* The nodes Root reaches through Children pointers.
Live(t) == { Walk(t)[i] : i \in 1..Len(Walk(t)) }

\* The nodes of the subtree at n.
Sub(t, n) ==
  LET seq == InOrder(t, n, Cardinality(DOMAIN t.nodes))
  IN  { seq[i] : i \in 1..Len(seq) }

\* The keys of the tree in symmetric order.
KeySeq(t) == [i \in 1..Len(Walk(t)) |-> t.nodes[Walk(t)[i]].Key]

KeySet(t) == { t.nodes[n].Key : n \in Live(t) }

\* The number of nodes on the longest path from n down to a leaf (0 for Nil),
\* computed from the shape.
RECURSIVE HeightFrom(_, _, _)
HeightFrom(t, n, fuel) ==
  IF n = Nil \/ fuel = 0
  THEN 0
  ELSE LET l == HeightFrom(t, t.nodes[n].Children[0], fuel - 1)
           r == HeightFrom(t, t.nodes[n].Children[1], fuel - 1)
       IN  1 + (IF l > r THEN l ELSE r)

Height(t, n) == HeightFrom(t, n, Cardinality(DOMAIN t.nodes))

\* Whether the call that left t behind rotated, and how.
Branches(t) == { t.log[i].branch : i \in 1..Len(t.log) }

Rotations(t) == { i \in 1..Len(t.log) :
                    t.log[i].branch \in {"rotate", "singlerot", "doublerot"} }

\* ----------------------------------------------------------------- C1

BSTProperty(t) ==
  /\ \A n \in Live(t) :
       /\ \A m \in Sub(t, t.nodes[n].Children[0]) :
            Comparator(t.nodes[m].Key, t.nodes[n].Key) < 0
       /\ \A m \in Sub(t, t.nodes[n].Children[1]) :
            Comparator(t.nodes[m].Key, t.nodes[n].Key) > 0
  /\ \A i \in 1..(Len(KeySeq(t)) - 1) :
       Comparator(KeySeq(t)[i], KeySeq(t)[i + 1]) < 0

\* C1: in every tree reachable from the empty tree by Put, Remove and Clear,
\* every key of a node's left subtree compares less than the node's key and
\* every key of its right subtree greater, and the symmetric order of the keys
\* is strictly increasing (so no key occurs twice).
C1_BSTProperty == BSTProperty(tree)

\* A tree of height 4 from which some Remove makes a double rotation.
C1_Witness ==
  /\ Height(tree, tree.Root) = 4
  /\ \E k \in Keys :
       /\ k \in KeySet(tree)
       /\ Cardinality(Rotations(TreeRemove(tree, k).t)) >= 1
       /\ "doublerot" \in Branches(TreeRemove(tree, k).t)

\* ----------------------------------------------------------------- C2

Balanced(t) ==
  \A n \in Live(t) :
    LET d == Height(t, t.nodes[n].Children[1]) - Height(t, t.nodes[n].Children[0])
    IN  d \in {-1, 0, 1}

\* C2: at the end of every Put and Remove (and Clear), the heights of the two
\* subtrees of every node, computed from the shape, differ by at most 1.
C2_Balanced == Balanced(tree)

\* A tree of height 4 in which a Remove makes a fix-up rotate below the root
\* and hand the change of height on to the root.
C2_Witness ==
  /\ Height(tree, tree.Root) = 4
  /\ \E k \in Keys :
       LET log == TreeRemove(tree, k).t.log
       IN  \E i \in 1..Len(log) :
             /\ log[i].branch \in {"singlerot", "doublerot"}
             /\ log[i].s # tree.Root
             /\ i < Len(log)

\* ----------------------------------------------------------------- C3

CachedBalanceExact(t) ==
  \A n \in Live(t) :
    /\ t.nodes[n].b \in {-1, 0, 1}
    /\ t.nodes[n].b =
         Height(t, t.nodes[n].Children[1]) - Height(t, t.nodes[n].Children[0])

\* C3: after every completed Put or Remove, the balance field b of every node
\* is -1, 0 or +1 and equals the height of the right subtree minus the height
\* of the left subtree, both computed from the shape.
C3_CachedBalanceExact == CachedBalanceExact(tree)

\* A tree with a node skewed each way, from which a Put rotates twice at one
\* node (a double rotation sets the b of three nodes).
C3_Witness ==
  /\ \E n, m \in Live(tree) : tree.nodes[n].b = -1 /\ tree.nodes[m].b = 1
  /\ \E k \in Keys, v \in Values :
       LET r == TreePut(tree, k, v).t
       IN  /\ "doublerot" \in Branches(r)
           /\ CachedBalanceExact(r)
           /\ \E n \in Live(r) : r.nodes[n].b # 0

\* ----------------------------------------------------------------- C4

SizeInvariant(t) ==
  /\ t.size = Cardinality(Live(t))
  /\ t.size = Len(Walk(t))
  /\ (t.size = 0) <=> (t.Root = Nil)
  /\ Empty(t) <=> (Live(t) = {})

\* C4: after any sequence of Put, Remove and Clear, size is the number of
\* nodes Root reaches, and size = 0 (Empty) exactly when Root is nil.
C4_SizeInvariant == SizeInvariant(tree)

\* A tree that holds every key but one: it has been filled, and either a
\* Remove took a key out or a Put is still to come.
C4_Witness ==
  /\ Size(tree) = MaxKey - 1
  /\ \E k \in Keys : k \notin KeySet(tree) /\ k < MaxKey /\ k > 1
  /\ ~Empty(tree)

\* ----------------------------------------------------------------- C5

ParentConsistent(t) ==
  /\ \A n \in Live(t) : \A d \in {0, 1} :
       t.nodes[n].Children[d] # Nil =>
         t.nodes[t.nodes[n].Children[d]].Parent = n
  /\ t.Root # Nil => t.nodes[t.Root].Parent = Nil

\* C5: after any sequence of Put and Remove (single and double rotations,
\* splice-out and removeMin included), every node c held in n.Children[d] has
\* c.Parent = n, and the Root node's Parent is nil.
C5_ParentConsistent == ParentConsistent(tree)

\* A tree from which a Remove of a node with two children takes the minimum of
\* the right subtree out (removeMin), re-parents that minimum's right child,
\* and rotates.
C5_Witness ==
  \E k \in Keys :
    \E n \in Live(tree) :
      /\ tree.nodes[n].Key = k
      /\ tree.nodes[n].Children[0] # Nil
      /\ tree.nodes[n].Children[1] # Nil
      /\ tree.nodes[tree.nodes[n].Children[1]].Children[0] = Nil
      /\ tree.nodes[tree.nodes[n].Children[1]].Children[1] # Nil
      /\ Rotations(TreeRemove(tree, k).t) # {}
      /\ ParentConsistent(Canon(TreeRemove(tree, k).t))

\* ----------------------------------------------------------------- C6

\* What Get(k) returns on the abstract map m.
ModelGet(m, k) ==
  IF k \in DOMAIN m
  THEN [value |-> m[k], found |-> TRUE, panic |-> FALSE]
  ELSE [value |-> NoValue, found |-> FALSE, panic |-> FALSE]

\* C6: after any sequence of Put, Remove and Clear with keys of the
\* comparator's domain, Get(k) on the tree returns what the abstract map built
\* by the same calls returns: (v, true) with v the value of the latest Put(k, v)
\* that no Remove(k) or Clear followed, (nil, false) otherwise; and so does the
\* Get the program last made.  (Get assigns to no field of the tree.)
C6_MapRefinement ==
  /\ \A k \in QueryKeys : TreeGet(tree, k) = ModelGet(model, k)
  /\ KeySet(tree) = DOMAIN model
  /\ ret.op = "Get" =>
       /\ ret.found = (ret.key \in DOMAIN model)
       /\ ret.value = IF ret.key \in DOMAIN model THEN model[ret.key] ELSE NoValue

\* A Get has found the value of a key in a tree that holds both payloads and
\* whose root has two children.
C6_Witness ==
  /\ ret.op = "Get"
  /\ ret.found
  /\ ret.value = "v2"
  /\ \E k \in DOMAIN model : model[k] = "v1"
  /\ tree.nodes[tree.Root].Children[0] # Nil
  /\ tree.nodes[tree.Root].Children[1] # Nil
  /\ tree.nodes[tree.Root].Key # ret.key

\* ----------------------------------------------------------------- C7

\* The keys left by Put(k, v) immediately followed by Remove(k).
KeysAfterPutRemove(t, k, v) == KeySet(TreeRemove(TreePut(t, k, v).t, k).t)

\* C7 as stated: for any reachable tree, any key k and any value v, Put(k, v)
\* immediately followed by Remove(k) leaves the key set the tree had before
\* the Put.
C7_RoundTripAnyKey ==
  \A k \in Keys, v \in Values : KeysAfterPutRemove(tree, k, v) = KeySet(tree)

\* C7 amended: for any reachable tree and any value v, Put(k, v) immediately
\* followed by Remove(k) leaves the key set the tree had before the Put when k
\* was not in the tree, and that key set without k when it was.
C7_RoundTrip ==
  \A k \in Keys, v \in Values :
    KeysAfterPutRemove(tree, k, v) = KeySet(tree) \ {k}

\* A tree into which a Put of a new key rotates, and out of which the Remove of
\* that key takes a node with two children.
C7_Witness ==
  \E k \in Keys, v \in Values :
    LET p == TreePut(tree, k, v).t
    IN  /\ k \notin KeySet(tree)
        /\ Rotations(p) # {}
        /\ \E n \in Live(p) :
             /\ p.nodes[n].Key = k
             /\ p.nodes[n].Children[0] # Nil
             /\ p.nodes[n].Children[1] # Nil
        /\ KeysAfterPutRemove(tree, k, v) = KeySet(tree)

\* ----------------------------------------------------------------- C8

\* t and u have the same nodes, links, balances and keys, and the same values
\* but for the node holding key k.
SameButValueOf(t, u, k) ==
  /\ DOMAIN u.nodes = DOMAIN t.nodes
  /\ u.Root = t.Root
  /\ u.size = t.size
  /\ \A n \in DOMAIN t.nodes :
       /\ u.nodes[n].Parent = t.nodes[n].Parent
       /\ u.nodes[n].Children = t.nodes[n].Children
       /\ u.nodes[n].b = t.nodes[n].b
       /\ u.nodes[n].Key = t.nodes[n].Key
       /\ t.nodes[n].Key # k => u.nodes[n].Value = t.nodes[n].Value

\* C8: Put(k, v2) on a tree that holds k makes no node, leaves size, every
\* child and parent link and every balance field as they were, runs no fix-up
\* (so no rotation), and afterwards Get(k) returns (v2, true); and
\* Put(k, v1); Put(k, v2) leaves the size Put(k, v1) left.
C8_OverwriteInPlace ==
  /\ \A k \in KeySet(tree), v2 \in Values :
       LET r == TreePut(tree, k, v2)
       IN  /\ ~r.panic
           /\ SameButValueOf(tree, r.t, k)
           /\ r.t.log = <<>>
           /\ TreeGet(r.t, k) = [value |-> v2, found |-> TRUE, panic |-> FALSE]
  /\ \A k \in Keys, v1, v2 \in Values :
       Size(TreePut(TreePut(tree, k, v1).t, k, v2).t) = Size(TreePut(tree, k, v1).t)

\* A tree of height 3 at least holding a key with value v1 in a leaf below a
\* skewed node: overwriting it with v2 would unbalance the tree if the Put
\* were taken for an insertion.
C8_Witness ==
  \E n \in Live(tree) :
    /\ tree.nodes[n].Value = "v1"
    /\ tree.nodes[n].Children[0] = Nil
    /\ tree.nodes[n].Children[1] = Nil
    /\ tree.nodes[n].Parent # Nil
    /\ tree.nodes[tree.nodes[n].Parent].b # 0
    /\ Height(tree, tree.Root) >= 3
    /\ TreeGet(TreePut(tree, tree.nodes[n].Key, "v2").t, tree.nodes[n].Key).value = "v2"

\* ----------------------------------------------------------------- C9

\* C9 as stated: whenever Put, Get or Remove is called with a key outside the
\* comparator's domain, on any tree (the empty tree included), the call panics
\* at a comparison, the key is never stored, and the tree is left as it was.
C9_DomainMismatchAborts ==
  /\ \A n \in Live(tree) : InDomain(tree.nodes[n].Key)
  /\ \A v \in Values :
       /\ TreePut(tree, BadKey, v).panic
       /\ TreePut(tree, BadKey, v).t = tree
  /\ TreeGet(tree, BadKey).panic
  /\ TreeRemove(tree, BadKey).panic
  /\ TreeRemove(tree, BadKey).t = tree

\* ----------------------------------------------------------------- C10

\* The node Floor(k) is to return: the one holding the largest key <= k.
IsFloor(t, k, r) ==
  LET below == { x \in KeySet(t) : x <= k }
  IN  /\ ~r.panic
      /\ r.found = (below # {})
      /\ IF below = {} THEN r.node = Nil
         ELSE /\ r.node \in Live(t)
              /\ t.nodes[r.node].Key \in below
              /\ \A x \in below : x <= t.nodes[r.node].Key

\* The node Ceiling(k) is to return: the one holding the smallest key >= k.
IsCeiling(t, k, r) ==
  LET above == { x \in KeySet(t) : x >= k }
  IN  /\ ~r.panic
      /\ r.found = (above # {})
      /\ IF above = {} THEN r.node = Nil
         ELSE /\ r.node \in Live(t)
              /\ t.nodes[r.node].Key \in above
              /\ \A x \in above : x >= t.nodes[r.node].Key

\* C10: on any reachable tree, Floor(k) returns (n, true) with n the node of
\* the largest key <= k if there is one and (nil, false) otherwise, Ceiling(k)
\* the same for the smallest key >= k, and so did the Floor or Ceiling the
\* program last made.  With three keys and a probe between the upper two and
\* one below all (10, 20, 30 with 25 and 5; here 1, 3, 5 with 4 and 0):
\* Floor(4) holds 3, Ceiling(4) holds 5, Floor(0) is not found.
C10_FloorCeiling ==
  /\ \A k \in QueryKeys :
       /\ IsFloor(tree, k, TreeFloor(tree, k))
       /\ IsCeiling(tree, k, TreeCeiling(tree, k))
  /\ ret.op = "Floor" =>
       IsFloor(tree, ret.key, [node |-> ret.node, found |-> ret.found, panic |-> panicked])
  /\ ret.op = "Ceiling" =>
       IsCeiling(tree, ret.key, [node |-> ret.node, found |-> ret.found, panic |-> panicked])
  /\ KeySet(tree) = {1, 3, 5} =>
       /\ TreeFloor(tree, 4).found /\ tree.nodes[TreeFloor(tree, 4).node].Key = 3
       /\ TreeCeiling(tree, 4).found /\ tree.nodes[TreeCeiling(tree, 4).node].Key = 5
       /\ ~TreeFloor(tree, 0).found /\ TreeFloor(tree, 0).node = Nil

\* The tree holds 1, 3 and 5 and the program has just asked Floor(4), which
\* returned the node of 3, not the root of its search path's end.
C10_Witness ==
  /\ KeySet(tree) = {1, 3, 5}
  /\ ret.op = "Floor"
  /\ ret.key = 4
  /\ ret.found
  /\ tree.nodes[ret.node].Key = 3

\* The sequence s end to front.
Reverse(s) == [i \in 1..Len(s) |-> s[Len(s) + 1 - i]]

\* s is what a walk along order has returned so far, now standing at node n:
\* a prefix of order, ended by n, and complete once n is nil.
WalkedAlong(t, order, s, n) ==
  /\ Len(s) <= Len(order)
  /\ \A i \in 1..Len(s) : s[i] = order[i]
  /\ n # Nil => Len(s) > 0 /\ s[Len(s)] = n
  /\ n = Nil => Len(s) = Size(t)

\* C11: from Left() on, Next() returns the nodes in symmetric order, each once
\* and with strictly increasing keys, and nil after exactly Size() of them;
\* from Right() on, Prev() returns them in the reverse order, with strictly
\* decreasing keys; Next() and Prev() of nil are nil.
C11_InOrderWalk ==
  /\ ret.op \in {"Left", "Next"} =>
       /\ WalkedAlong(tree, Walk(tree), ret.seq, ret.node)
       /\ \A i \in 1..(Len(ret.seq) - 1) :
            Comparator(tree.nodes[ret.seq[i]].Key, tree.nodes[ret.seq[i + 1]].Key) < 0
  /\ ret.op \in {"Right", "Prev"} =>
       /\ WalkedAlong(tree, Reverse(Walk(tree)), ret.seq, ret.node)
       /\ \A i \in 1..(Len(ret.seq) - 1) :
            Comparator(tree.nodes[ret.seq[i]].Key, tree.nodes[ret.seq[i + 1]].Key) > 0
  /\ NodeNext(tree, Nil) = Nil
  /\ NodePrev(tree, Nil) = Nil

\* Next() has just returned nil at the end of a walk over five nodes, some of
\* which it reached by climbing two levels.
C11_Witness ==
  /\ ret.op = "Next"
  /\ ret.node = Nil
  /\ Len(ret.seq) = 5
  /\ \E n \in Live(tree) :
       /\ tree.nodes[n].Children[1] = Nil
       /\ tree.nodes[n].Parent # Nil
       /\ tree.nodes[tree.nodes[n].Parent].Children[1] = n
       /\ NodeNext(tree, n) = tree.nodes[tree.nodes[n].Parent].Parent
       /\ NodeNext(tree, n) # Nil

\* The node Left() and Right() must return: the one with the least
\* (d = 0) or the greatest (d = 1) key, nil on the empty tree.
IsExtreme(t, d, n) ==
  IF t.Root = Nil
  THEN n = Nil
  ELSE /\ n \in Live(t)
       /\ \A m \in Live(t) :
            IF d = 0 THEN Comparator(t.nodes[n].Key, t.nodes[m].Key) <= 0
                     ELSE Comparator(t.nodes[n].Key, t.nodes[m].Key) >= 0

\* C12: Left() returns the node with the smallest key and Right() the node
\* with the largest, both nil on the empty tree, and neither call changes the
\* tree.
C12_MinMax ==
  /\ [](/\ ret.op = "Left" => IsExtreme(tree, 0, ret.node)
        /\ ret.op = "Right" => IsExtreme(tree, 1, ret.node))
  /\ [][ret'.op \in {"Left", "Right"} => tree' = tree]_vars

\* Left() has returned a node two levels below the root of a tree of five.
C12_Witness ==
  /\ ret.op = "Left"
  /\ tree.size = 5
  /\ ret.node # Nil
  /\ tree.nodes[ret.node].Parent # Nil
  /\ tree.nodes[ret.node].Parent # tree.Root


\* The Fibonacci numbers: 0, 1, 1, 2, 3, 5, 8, ...
RECURSIVE Fib(_)
Fib(n) == IF n < 2 THEN n ELSE Fib(n - 1) + Fib(n - 2)

\* The keys of the scenario, in the order they are inserted.
AscendingKeys == <<1, 2, 3, 4, 5, 6, 7>>

\* The tree after Put(keys[i], v) for i = from, from + 1, ... on t.
RECURSIVE PutAll(_, _, _)
PutAll(t, keys, from) ==
  IF from > Len(keys) THEN t
  ELSE PutAll(TreePut(t, keys[from], "v1").t, keys, from + 1)

\* C13: the tree that Put of 1, 2, ..., 7 in this order builds from the empty
\* tree has height at most 5, and every reachable tree of height h has at
\* least Fib(h + 2) - 1 nodes.
C13_HeightBound ==
  /\ Height(PutAll(EmptyTree, AscendingKeys, 1),
            PutAll(EmptyTree, AscendingKeys, 1).Root) <= 5
  /\ Fib(Height(tree, tree.Root) + 2) - 1 <= Cardinality(Live(tree))

\* The tree of the scenario: seven keys, and three levels after the four
\* rotations of the ascending insertion.
C13_Witness ==
  /\ tree = Canon(PutAll(EmptyTree, AscendingKeys, 1))
  /\ Cardinality(Live(tree)) = 7
  /\ Height(tree, tree.Root) = 3


\* The fields of t a later call can read: what Root reaches, and size.
Observable(t) == Canon(t)

\* C14: Clear() on any reachable tree sets Root to nil and size to 0; then Get
\* finds no key, Left() and Right() return nil, and Put and Remove, alone and
\* one after the other, leave what they leave on a freshly constructed tree.
C14_Clear ==
  With(TreeClear(tree), LAMBDA c :
    /\ c.Root = Nil
    /\ c.size = 0
    /\ \A k \in Keys : ~TreeGet(c, k).found /\ TreeGet(c, k).value = NoValue
    /\ TreeLeft(c) = Nil
    /\ TreeRight(c) = Nil
    /\ \A k \in Keys :
         Observable(TreeRemove(c, k).t) = Observable(TreeRemove(EmptyTree, k).t)
    /\ \A k \in Keys, v \in Values :
         /\ Observable(TreePut(c, k, v).t) = Observable(TreePut(EmptyTree, k, v).t)
         /\ \A j \in Keys :
              /\ Observable(TreePut(TreePut(c, k, v).t, j, v).t)
                   = Observable(TreePut(TreePut(EmptyTree, k, v).t, j, v).t)
              /\ Observable(TreeRemove(TreePut(c, k, v).t, j).t)
                   = Observable(TreeRemove(TreePut(EmptyTree, k, v).t, j).t))

\* Clear() acts on a tree of seven nodes, which stay in memory behind the
\* cleared Root, and the Put that follows builds a one-node tree.
C14_Witness ==
  /\ tree.size = 7
  /\ TreeClear(tree).Root = Nil
  /\ Cardinality(DOMAIN TreeClear(tree).nodes) = 7
  /\ Observable(TreePut(TreeClear(tree), 4, "v1").t).size = 1
  /\ Cardinality(DOMAIN Observable(TreePut(TreeClear(tree), 4, "v1").t).nodes) = 1


\* The tree holds exactly the pairs of the map elements, and is a well-formed
\* AVL tree.
HoldsExactly(t, elements) ==
  /\ KeySet(t) = DOMAIN elements
  /\ \A n \in Live(t) : t.nodes[n].Value = elements[t.nodes[n].Key]
  /\ Size(t) = Cardinality(DOMAIN elements)
  /\ BSTProperty(t)
  /\ Balanced(t)
  /\ CachedBalanceExact(t)
  /\ SizeInvariant(t)
  /\ ParentConsistent(t)

\* C15: a FromJSON whose decoding fails returns the error and leaves the tree
\* as it was; one whose decoding succeeds returns, and leaves a well-formed
\* tree that holds exactly the decoded pairs, whatever the order of the Puts.
C15_FromJSONAllOrNothing ==
  [][ret'.op = "FromJSON" =>
       IF ret'.err
       THEN tree' = tree /\ ~panicked'
       ELSE ~panicked' /\ HoldsExactly(tree', ret'.elements)]_vars


\* Every element but the first compares greater than or equal to the one at
\* its parent index.
HeapOrdered(l) ==
  \A i \in 1..(Len(l) - 1) : Comparator(l[i + 1], l[(i - 1) \div 2 + 1]) >= 0

\* C16: after any sequence of Push (of one, several or no values), Pop and
\* Clear, every element at an index i > 0 of the heap's list compares greater
\* than or equal to the element at index (i - 1) / 2.
C16_HeapOrder == HeapOrdered(heap.list)

\* A heap of three levels that a Push of several values at once, onto a heap
\* that was not empty, has rearranged.
C16_Witness ==
  /\ HeapSize(heap) = 3
  /\ \E values \in PushArgs :
       /\ Len(values) = 2
       /\ HeapSize(HeapPush(heap, values)) = 5
       /\ HeapPush(heap, values).list # heap.list \o values
       /\ HeapOrdered(HeapPush(heap, values).list)

\* How many times x occurs in the list l.
Count(l, x) == Cardinality({ i \in 1..Len(l) : l[i] = x })

\* C17: on a non-empty heap Pop returns (x, true) for an x that no stored
\* element compares less than, takes one occurrence of x out and keeps every
\* other element, and Peek returns the same x and changes nothing; on the
\* empty heap both return (nil, false) and change nothing.
C17_PopPeek ==
  IF HeapSize(heap) = 0
  THEN /\ HeapPop(heap) = [h |-> heap, value |-> NoValue, ok |-> FALSE]
       /\ HeapPeek(heap) = [value |-> NoValue, ok |-> FALSE]
  ELSE /\ HeapPop(heap).ok
       /\ \A i \in 1..Len(heap.list) :
            Comparator(HeapPop(heap).value, heap.list[i]) <= 0
       /\ HeapSize(HeapPop(heap).h) = HeapSize(heap) - 1
       /\ \A x \in Elements :
            Count(HeapPop(heap).h.list, x)
              = Count(heap.list, x) - (IF x = HeapPop(heap).value THEN 1 ELSE 0)
       /\ HeapPeek(heap) = [value |-> HeapPop(heap).value, ok |-> TRUE]

\* Pop has just returned the least element of a heap that holds it a second
\* time, and four elements are left.
C17_Witness ==
  /\ ret.op = "Pop"
  /\ ret.ok
  /\ HeapSize(heap) = 4
  /\ Count(heap.list, ret.value) >= 1
  /\ \E x \in Elements : Comparator(ret.value, x) < 0 /\ Count(heap.list, x) >= 1


\* The elements a Values() call on c sees.
ValuesSeen(c) == ContainerValues(c).mem[ContainerValues(c).slice]

\* C18: GetSortedValues returns the container's elements in non-decreasing
\* order and leaves the order of the elements in the container, as a later
\* Values() sees it, unchanged, whether Values() copies or returns the
\* backing slice itself.
C18_SortedValuesNoEffect ==
  ret.op = "GetSortedValues" =>
    /\ \A i \in 1..(Len(ret.values) - 1) :
         Comparator(ret.values[i], ret.values[i + 1]) <= 0
    /\ \A x \in Elements : Count(ret.values, x) = Count(ret.before, x)
    /\ ValuesSeen(container) = ret.before


\* The slots the recursion of put and of remove goes through for key, from
\* slot qp down.
RECURSIVE PathSlots(_, _, _)
PathSlots(t, key, qp) ==
  IF Deref(t, qp) = Nil \/ Comparator(key, t.nodes[Deref(t, qp)].Key) = 0
  THEN {qp}
  ELSE {qp} \cup PathSlots(t, key,
                  ChildSlot(Deref(t, qp),
                            (Comparator(key, t.nodes[Deref(t, qp)].Key) + 1) \div 2))

\* The slots the recursion of removeMin goes through, from slot qp down.
RECURSIVE MinSlots(_, _)
MinSlots(t, qp) ==
  IF t.nodes[Deref(t, qp)].Children[0] = Nil
  THEN {qp}
  ELSE {qp} \cup MinSlots(t, ChildSlot(Deref(t, qp), 0))

\* The height of the subtree that slot qp holds.
SlotHeight(t, qp) == Height(t, Deref(t, qp))

\* C19: Remove(k) of a key k that is not in the tree, the empty tree
\* included, leaves size and every node's key, value, parent and child links
\* and balance field as they were, and runs no fix-up step, so no rotation.
C19_RemoveAbsentNoOp ==
  \A k \in Keys \ KeySet(tree) :
    With(TreeRemove(tree, k), LAMBDA r :
      /\ ~r.panic
      /\ r.t.size = tree.size
      /\ r.t.Root = tree.Root
      /\ r.t.nodes = tree.nodes
      /\ r.t.log = <<>>
      /\ Rotations(r.t) = {})

\* Remove is about to miss a key whose search ends below a node three levels
\* down a tree of six nodes.
C19_Witness ==
  /\ tree.size = 6
  /\ \E k \in Keys \ KeySet(tree) :
       /\ \E qp \in PathSlots(tree, k, RootSlot) :
            /\ Deref(tree, qp) = Nil
            /\ qp.n # Nil
            /\ tree.nodes[qp.n].Parent # Nil
            /\ tree.nodes[tree.nodes[qp.n].Parent].Parent # Nil
       /\ TreeRemove(tree, k).t.nodes = tree.nodes

\* C20: at every level of its recursion put returns true exactly when the
\* subtree in the slot it was called on is higher after the call than before,
\* and remove and removeMin return true exactly when that subtree is lower
\* after the call than before.
C20_HeightSignalExact ==
  /\ \A k \in Keys : \A qp \in PathSlots(tree, k, RootSlot) :
       /\ With(put(tree, k, "v1", qp.n, qp), LAMBDA r :
            r.ret <=> SlotHeight(r.t, qp) > SlotHeight(tree, qp))
       /\ With(remove(tree, k, qp), LAMBDA r :
            r.ret <=> SlotHeight(r.t, qp) < SlotHeight(tree, qp))
  /\ \A q \in Live(tree) :
       tree.nodes[q].Children[1] # Nil =>
         \A qp \in MinSlots(tree, ChildSlot(q, 1)) :
           With(removeMin(tree, qp, q), LAMBDA r :
             r.ret <=> SlotHeight(r.t, qp) < SlotHeight(tree, qp))

\* A tree of seven nodes on which a Remove rotates below the root and makes
\* that subtree lower (true goes up), a removeMin two levels down reports a
\* lower subtree, and a Put that overwrites below the root reports no growth.
C20_Witness ==
  /\ tree.size = 7
  /\ \E k \in KeySet(tree) : \E qp \in PathSlots(tree, k, RootSlot) :
       /\ qp # RootSlot
       /\ Branches(remove(tree, k, qp).t) \cap {"singlerot", "doublerot"} # {}
       /\ remove(tree, k, qp).ret
  /\ \E q \in Live(tree) :
       /\ tree.nodes[q].Children[1] # Nil
       /\ \E qp \in MinSlots(tree, ChildSlot(q, 1)) :
            qp # ChildSlot(q, 1) /\ removeMin(tree, qp, q).ret
  /\ \E k \in KeySet(tree) : \E qp \in PathSlots(tree, k, RootSlot) :
       /\ qp # RootSlot
       /\ ~put(tree, k, "v1", qp.n, qp).ret


\* ------------------------------------------------ the calls of removeFix

\* The node Remove(key) matches in t, Nil if there is none.
Matched(t, key) ==
  IF \E n \in Live(t) : Comparator(key, t.nodes[n].Key) = 0
  THEN CHOOSE n \in Live(t) : Comparator(key, t.nodes[n].Key) = 0
  ELSE Nil

\* The slot that holds node n.
SlotOf(t, n) ==
  IF t.nodes[n].Parent = Nil THEN RootSlot
  ELSE IF t.nodes[t.nodes[n].Parent].Children[0] = n
  THEN ChildSlot(t.nodes[n].Parent, 0)
  ELSE ChildSlot(t.nodes[n].Parent, 1)

\* The side of the node in slot qp on which the search for key goes on.
SideOf(t, key, qp) == Comparator(key, t.nodes[Deref(t, qp)].Key)

\* The calls removeFix(c, qp) that Remove(key) on t makes, each with the tree
\* t it finds (the recursive call below it has returned true):
\* from remove above the matched node, ...
RemoveFixCallsAbove(t, key) ==
  { [t |-> remove(t, key, ChildSlot(Deref(t, qp), (SideOf(t, key, qp) + 1) \div 2)).t,
     c |-> -SideOf(t, key, qp),
     qp |-> qp] :
      qp \in { x \in PathSlots(t, key, RootSlot) :
                 /\ Deref(t, x) # Nil
                 /\ SideOf(t, key, x) # 0
                 /\ remove(t, key,
                           ChildSlot(Deref(t, x), (SideOf(t, key, x) + 1) \div 2)).ret } }

\* ... from remove at the matched node q, after removeMin on its right
\* subtree, ...
RemoveFixCallsAt(t, q) ==
  IF q # Nil /\ t.nodes[q].Children[1] # Nil
       /\ removeMin([t EXCEPT !.size = @ - 1], ChildSlot(q, 1), q).ret
  THEN { [t |-> removeMin([t EXCEPT !.size = @ - 1], ChildSlot(q, 1), q).t,
          c |-> -1,
          qp |-> SlotOf(t, q)] }
  ELSE {}

\* ... and from removeMin on the way down to the minimum of that subtree.
RemoveFixCallsBelow(t, q) ==
  IF q # Nil /\ t.nodes[q].Children[1] # Nil
  THEN { [t |-> removeMin([t EXCEPT !.size = @ - 1],
                          ChildSlot(Deref(t, qp), 0), q).t,
          c |-> 1,
          qp |-> qp] :
           qp \in { x \in MinSlots(t, ChildSlot(q, 1)) :
                      /\ t.nodes[Deref(t, x)].Children[0] # Nil
                      /\ removeMin([t EXCEPT !.size = @ - 1],
                                   ChildSlot(Deref(t, x), 0), q).ret } }
  ELSE {}

RemoveFixCalls(t, key) ==
  RemoveFixCallsAbove(t, key)
    \cup RemoveFixCallsAt(t, Matched(t, key))
    \cup RemoveFixCallsBelow(t, Matched(t, key))

\* All of them, over the keys of the tree.
AllRemoveFixCalls(t) == UNION { RemoveFixCalls(t, k) : k \in KeySet(t) }

\* The node the call finds in its slot, its balance, and the balance of its
\* child on side c.
FixNode(call) == Deref(call.t, call.qp)

FixBalance(call) == call.t.nodes[FixNode(call)].b

HeavyChild(call) == call.t.nodes[FixNode(call)].Children[(call.c + 1) \div 2]

\* The node is skewed toward c already: with the other side shorter by one
\* more it is out of balance.
OutOfBalance(call) == FixBalance(call) = call.c

\* What the call returns and leaves.
FixResult(call) == removeFix(call.t, call.c, call.qp)

\* The call rotated once: the heavy child took the slot, and the node became
\* its child on the other side.
RotatedOnce(call) ==
  /\ Deref(FixResult(call).t, call.qp) = HeavyChild(call)
  /\ FixResult(call).t.nodes[HeavyChild(call)].Children[1 - (call.c + 1) \div 2]
       = FixNode(call)

\* The call rotated twice: the heavy child's child on the inner side took the
\* slot, with the node and the heavy child as its children.
RotatedTwice(call) ==
  With(call.t.nodes[HeavyChild(call)].Children[1 - (call.c + 1) \div 2], LAMBDA p :
    /\ Deref(FixResult(call).t, call.qp) = p
    /\ FixResult(call).t.nodes[p].Children[(call.c + 1) \div 2] = HeavyChild(call)
    /\ FixResult(call).t.nodes[p].Children[1 - (call.c + 1) \div 2] = FixNode(call))


\* The height of the subtree in the call's slot went down by n over the whole
\* Remove up to and including this call.
LowerBy(call, n) ==
  SlotHeight(FixResult(call).t, call.qp) = SlotHeight(tree, call.qp) - n

\* C21 as stated: when removeFix finds the node skewed toward c and the
\* balance of its child on that side is 0, it rotates once and returns true
\* (the parent goes on fixing up).
C21_BalancedChildPropagates ==
  \A call \in AllRemoveFixCalls(tree) :
    OutOfBalance(call) /\ call.t.nodes[HeavyChild(call)].b = 0 =>
      RotatedOnce(call) /\ FixResult(call).ret

\* C21 amended: when removeFix finds the node skewed toward c and the balance
\* of its child on that side is 0, it rotates once, leaves the promoted child
\* with balance -c and the node with balance c, and returns false: the
\* subtree is as high as before the Remove and no removeFix runs on the
\* parent.
C21_BalancedChildStops ==
  \A call \in AllRemoveFixCalls(tree) :
    OutOfBalance(call) /\ call.t.nodes[HeavyChild(call)].b = 0 =>
      /\ RotatedOnce(call)
      /\ ~FixResult(call).ret
      /\ FixResult(call).t.nodes[HeavyChild(call)].b = -call.c
      /\ FixResult(call).t.nodes[FixNode(call)].b = call.c
      /\ LowerBy(call, 0)
      /\ \A up \in AllRemoveFixCalls(tree) : up.t # FixResult(call).t

\* A Remove is about to run removeFix below the root on a node whose heavy
\* child is level, and no removeFix of the same Remove runs after it.
C21_Witness ==
  \E call \in AllRemoveFixCalls(tree) :
    /\ OutOfBalance(call)
    /\ call.t.nodes[HeavyChild(call)].b = 0
    /\ call.qp # RootSlot
    /\ RotatedOnce(call)
    /\ ~FixResult(call).ret
    /\ \A up \in AllRemoveFixCalls(tree) : up.t # FixResult(call).t

\* C22 as stated: when removeFix finds the node skewed toward c and its child
\* on that side skewed toward c too, it rotates once and returns false (no
\* ancestor is fixed up).
C22_SameSignChildStops ==
  \A call \in AllRemoveFixCalls(tree) :
    OutOfBalance(call) /\ call.t.nodes[HeavyChild(call)].b = call.c =>
      RotatedOnce(call) /\ ~FixResult(call).ret

\* C22 amended: when removeFix finds the node skewed toward c and its child
\* on that side skewed toward c too, it rotates once, leaves both with balance
\* 0 and returns true: the subtree is lower by one than before the Remove and
\* the parent goes on fixing up.
C22_SameSignChildPropagates ==
  \A call \in AllRemoveFixCalls(tree) :
    OutOfBalance(call) /\ call.t.nodes[HeavyChild(call)].b = call.c =>
      /\ RotatedOnce(call)
      /\ FixResult(call).ret
      /\ FixResult(call).t.nodes[HeavyChild(call)].b = 0
      /\ FixResult(call).t.nodes[FixNode(call)].b = 0
      /\ LowerBy(call, 1)

\* A Remove is about to run removeFix below the root on a node whose heavy
\* child is skewed the same way, and the parent's removeFix runs after it.
C22_Witness ==
  \E call \in AllRemoveFixCalls(tree) :
    /\ OutOfBalance(call)
    /\ call.t.nodes[HeavyChild(call)].b = call.c
    /\ call.qp # RootSlot
    /\ FixResult(call).ret
    /\ \E up \in AllRemoveFixCalls(tree) :
         /\ up.qp = SlotOf(tree, call.qp.n)
         /\ up.t = FixResult(call).t

\* C23: when removeFix finds the node skewed toward c and its child on that
\* side skewed the other way, it rotates twice and returns true, and the
\* subtree is lower by exactly one than before the Remove.
C23_OppositeChildPropagates ==
  \A call \in AllRemoveFixCalls(tree) :
    OutOfBalance(call) /\ call.t.nodes[HeavyChild(call)].b = -call.c =>
      /\ RotatedTwice(call)
      /\ FixResult(call).ret
      /\ LowerBy(call, 1)

\* A Remove is about to run removeFix below the root on a node whose heavy
\* child is skewed the other way.
C23_Witness ==
  \E call \in AllRemoveFixCalls(tree) :
    /\ OutOfBalance(call)
    /\ call.t.nodes[HeavyChild(call)].b = -call.c
    /\ call.qp # RootSlot
    /\ RotatedTwice(call)
    /\ FixResult(call).ret

\* The Remove has made the subtree on side d of the call's node lower.
ShrankOn(call, d) ==
  Height(call.t, call.t.nodes[FixNode(call)].Children[(d + 1) \div 2])
    < Height(tree, tree.nodes[FixNode(call)].Children[(d + 1) \div 2])

\* C24 as stated: when a Remove has made the subtree on side d of a node
\* lower and the node's balance was 0, its balance afterwards is d and the
\* fix-up stops there.
C24_SkewTowardShrunkSide ==
  \A call \in AllRemoveFixCalls(tree) : \A d \in {-1, 1} :
    ShrankOn(call, d) /\ tree.nodes[FixNode(call)].b = 0 =>
      /\ FixResult(call).t.nodes[FixNode(call)].b = d
      /\ ~FixResult(call).ret

\* C24 amended: when a Remove has made the subtree on side d of a node lower
\* and the node's balance was 0, its balance afterwards is -d, the side that
\* did not shrink, the subtree at the node is as high as before, and the
\* fix-up stops there.
C24_SkewAwayFromShrunkSide ==
  \A call \in AllRemoveFixCalls(tree) : \A d \in {-1, 1} :
    ShrankOn(call, d) /\ tree.nodes[FixNode(call)].b = 0 =>
      /\ FixResult(call).t.nodes[FixNode(call)].b = -d
      /\ ~FixResult(call).ret
      /\ LowerBy(call, 0)

\* A Remove is about to shrink the left side of a level node two levels below
\* the root, after a fix-up further down.
C24_Witness ==
  \E call \in AllRemoveFixCalls(tree) :
    /\ ShrankOn(call, -1)
    /\ tree.nodes[FixNode(call)].b = 0
    /\ call.qp # RootSlot
    /\ FixResult(call).t.nodes[FixNode(call)].b = 1
    /\ ~FixResult(call).ret


\* ---------------------------------------------------- the steps of a Put

\* The steps of the log of u that rotated, and those that ended the fix-up.
RotatingSteps(u) ==
  { i \in 1..Len(u.log) : u.log[i].branch \in {"singlerot", "doublerot"} }

StoppingSteps(u) ==
  { i \in 1..Len(u.log) : u.log[i].branch \in {"absorb", "singlerot", "doublerot"} }

\* The nodes a rotation at node s has re-linked in u, the tree it left: s,
\* the node now above s, and that node's children.
Rotated(u, s) ==
  {s, u.nodes[s].Parent}
    \cup { u.nodes[u.nodes[s].Parent].Children[a] : a \in {0, 1} }

\* Node n of t has in u the key, value and links it had in t, but for what a
\* Put that rotated at the nodes of the set moved (none if moved is empty)
\* must change around them: a nil child link may have received the new node,
\* the child link to node s the node now above s, and the Parent of a subtree
\* handed over may be one of the nodes that rotated.
UntouchedBut(t, u, n, s, moved) ==
  /\ u.nodes[n].Key = t.nodes[n].Key
  /\ \A a \in {0, 1} :
       \/ u.nodes[n].Children[a] = t.nodes[n].Children[a]
       \/ /\ t.nodes[n].Children[a] = Nil
          /\ u.nodes[n].Children[a] \notin DOMAIN t.nodes
       \/ /\ moved # {}
          /\ t.nodes[n].Children[a] = s
          /\ u.nodes[n].Children[a] = u.nodes[s].Parent
  /\ \/ u.nodes[n].Parent = t.nodes[n].Parent
     \/ u.nodes[n].Parent \in moved

\* C25: a Put runs at most one fix-up step that rotates (once or twice, at
\* one node); every other step only sets a balance field, and every node
\* that did not take part in the rotation keeps its key and its links.
C25_AtMostOneRotation ==
  \A k \in DeepKeys :
    With(TreePut(tree, k, "v1").t, LAMBDA u :
      /\ Cardinality(RotatingSteps(u)) <= 1
      /\ \A i \in 1..Len(u.log) :
           /\ u.log[i].fn = "putFix"
           /\ i \notin RotatingSteps(u) => u.log[i].branch \in {"grow", "absorb"}
      /\ IF RotatingSteps(u) = {}
         THEN \A n \in Live(tree) : UntouchedBut(tree, u, n, Nil, {})
         ELSE \A i \in RotatingSteps(u) :
                \A n \in Live(tree) \ Rotated(u, u.log[i].s) :
                  UntouchedBut(tree, u, n, u.log[i].s, Rotated(u, u.log[i].s)))

\* A Put is about to rotate twice at a node below the root, after two steps
\* that only set a balance field.
C25_Witness ==
  \E k \in DeepKeys :
    With(TreePut(tree, k, "v1").t, LAMBDA u :
      /\ Len(u.log) = 3
      /\ u.log[3].branch = "doublerot"
      /\ u.log[1].branch = "grow"
      /\ u.log[2].branch = "grow"
      /\ tree.nodes[u.log[3].s].Parent # Nil)

\* The nodes above n in t.
RECURSIVE ProperAncestors(_, _)
ProperAncestors(t, n) ==
  IF t.nodes[n].Parent = Nil THEN {}
  ELSE {t.nodes[n].Parent} \cup ProperAncestors(t, t.nodes[n].Parent)

\* C26: once the fix-up of a Put has set a node's balance to 0 or rotated at
\* it, it runs no further step, and every node above that node keeps its
\* balance, key, value and child links, but for the child link of its parent
\* that receives the node a rotation has put on top.
C26_EarlyTerminationFrame ==
  \A k \in DeepKeys :
    With(TreePut(tree, k, "v1").t, LAMBDA u :
      \A i \in StoppingSteps(u) :
        /\ i = Len(u.log)
        /\ \A n \in ProperAncestors(tree, u.log[i].s) :
             /\ u.nodes[n].b = tree.nodes[n].b
             /\ u.nodes[n].Key = tree.nodes[n].Key
             /\ u.nodes[n].Value = tree.nodes[n].Value
             /\ \A a \in {0, 1} :
                  \/ u.nodes[n].Children[a] = tree.nodes[n].Children[a]
                  \/ /\ i \in RotatingSteps(u)
                     /\ n = tree.nodes[u.log[i].s].Parent
                     /\ tree.nodes[n].Children[a] = u.log[i].s
                     /\ u.nodes[n].Children[a] = u.nodes[u.log[i].s].Parent)

\* A Put is about to rotate at a node two levels below the root whose parent
\* and grandparent are both skewed, and another Put is about to be absorbed
\* there.
C26_Witness ==
  /\ \E k \in DeepKeys :
       With(TreePut(tree, k, "v1").t, LAMBDA u :
         /\ RotatingSteps(u) # {}
         /\ Cardinality(ProperAncestors(tree, u.log[Len(u.log)].s)) >= 2
         /\ \A n \in ProperAncestors(tree, u.log[Len(u.log)].s) :
              tree.nodes[n].b # 0)
  /\ \E k \in DeepKeys :
       With(TreePut(tree, k, "v1").t, LAMBDA u :
         /\ Len(u.log) >= 1
         /\ u.log[Len(u.log)].branch = "absorb"
         /\ Cardinality(ProperAncestors(tree, u.log[Len(u.log)].s)) >= 2)


\* ------------------------------------------- the node a Remove unlinks

\* Every node of u but those of the set has the key and value it has in t.
SameEntriesBut(t, u, changed) ==
  \A n \in Live(u) \ changed :
    /\ u.nodes[n].Key = t.nodes[n].Key
    /\ u.nodes[n].Value = t.nodes[n].Value

\* Remove has left in u the matched node q of t in place, holding the entry
\* of the minimum of its right subtree, and has unlinked that minimum's node.
SuccessorSubstituted(t, u, q) ==
  With(Descend(t, t.nodes[q].Children[1], 0), LAMBDA m :
    /\ Live(u) = Live(t) \ {m}
    /\ q \in Live(u)
    /\ u.nodes[q].Key = t.nodes[m].Key
    /\ u.nodes[q].Value = t.nodes[m].Value
    /\ SameEntriesBut(t, u, {q}))

\* Remove has unlinked the matched node q of t, and its left child, if it has
\* one, is in u where q was: below q's former parent, on q's side.
LeftChildPromoted(t, u, q) ==
  With(t.nodes[q].Children[0], LAMBDA x :
    /\ Live(u) = Live(t) \ {q}
    /\ SameEntriesBut(t, u, {})
    /\ x # Nil => u.nodes[x].Parent = t.nodes[q].Parent
    /\ IF t.nodes[q].Parent = Nil
       THEN u.Root = x
       ELSE Deref(u, SlotOf(t, q)) = x)

\* C27: Remove of a key held by a node with a right child keeps that node
\* and gives it the key and value of the minimum of its right subtree, whose
\* node is the one unlinked; no other node's key or value changes. Held by a
\* node without a right child, it unlinks that node and its left child takes
\* its slot, with the node's former parent as Parent.
C27_SuccessorSubstitution ==
  \A k \in KeySet(tree) :
    With(Matched(tree, k), LAMBDA q :
      With(TreeRemove(tree, k).t, LAMBDA u :
        IF tree.nodes[q].Children[1] # Nil
        THEN SuccessorSubstituted(tree, u, q)
        ELSE LeftChildPromoted(tree, u, q)))

\* Remove is about to take the successor of a node from two levels further
\* down, the successor having a right child and a value other than the
\* node's, and another Remove is about to unlink a node below the root that
\* has a left child only.
C27_Witness ==
  /\ \E k \in KeySet(tree) :
       With(Matched(tree, k), LAMBDA q :
         /\ tree.nodes[q].Children[1] # Nil
         /\ With(Descend(tree, tree.nodes[q].Children[1], 0), LAMBDA m :
              /\ tree.nodes[m].Parent # q
              /\ tree.nodes[m].Children[1] # Nil
              /\ tree.nodes[m].Value # tree.nodes[q].Value))
  /\ \E k \in KeySet(tree) :
       With(Matched(tree, k), LAMBDA q :
         /\ tree.nodes[q].Parent # Nil
         /\ tree.nodes[q].Children[1] = Nil
         /\ tree.nodes[q].Children[0] # Nil)


\* ------------------------------------------ the nodes a fix-up reads

\* r := s.Children[a] and r.Children[a^1] in rotate(c, s): s and r are there.
RotateReads(t, c, s) ==
  /\ s # Nil
  /\ t.nodes[s].Children[(c + 1) \div 2] # Nil

\* doublerot(c, s) rotates the child r of s by -c, so reads r's child on the
\* other side, and then s by c.
DoublerotReads(t, c, s) ==
  /\ RotateReads(t, c, s)
  /\ RotateReads(t, -c, t.nodes[s].Children[(c + 1) \div 2])

\* s.Children[a].b in putFix(c, qp), and what the rotation it picks reads.
PutFixReads(t, c, qp) ==
  With(Deref(t, qp), LAMBDA s :
    /\ s # Nil
    /\ t.nodes[s].b = c =>
         /\ t.nodes[s].Children[(c + 1) \div 2] # Nil
         /\ IF t.nodes[t.nodes[s].Children[(c + 1) \div 2]].b = c
            THEN RotateReads(t, c, s)
            ELSE DoublerotReads(t, c, s))

\* s.Children[a].b in removeFix(c, qp), and what the rotation it picks reads.
RemoveFixReads(t, c, qp) ==
  With(Deref(t, qp), LAMBDA s :
    /\ s # Nil
    /\ t.nodes[s].b = c =>
         /\ t.nodes[s].Children[(c + 1) \div 2] # Nil
         /\ IF t.nodes[t.nodes[s].Children[(c + 1) \div 2]].b \in {0, c}
            THEN RotateReads(t, c, s)
            ELSE DoublerotReads(t, c, s))

\* Every node that put(key, value, p, qp) on t and the calls it makes read
\* through a child link without a test is there.
RECURSIVE PutReads(_, _, _, _)
PutReads(t, key, value, qp) ==
  With(Deref(t, qp), LAMBDA q :
    \/ q = Nil
    \/ Comparator(key, t.nodes[q].Key) = 0
    \/ With(Comparator(key, t.nodes[q].Key), LAMBDA c :
         /\ PutReads(t, key, value, ChildSlot(q, (c + 1) \div 2))
         /\ With(put(t, key, value, q, ChildSlot(q, (c + 1) \div 2)), LAMBDA r :
              r.ret => PutFixReads(r.t, c, qp))))

\* The same of removeMin(qp, &dst.Key, &dst.Value) on t.
RECURSIVE RemoveMinReads(_, _, _)
RemoveMinReads(t, qp, dst) ==
  With(Deref(t, qp), LAMBDA q :
    /\ q # Nil
    /\ \/ t.nodes[q].Children[0] = Nil
       \/ /\ RemoveMinReads(t, ChildSlot(q, 0), dst)
          /\ With(removeMin(t, ChildSlot(q, 0), dst), LAMBDA r :
               r.ret => RemoveFixReads(r.t, 1, qp)))

\* The same of remove(key, qp) on t.
RECURSIVE RemoveReads(_, _, _)
RemoveReads(t, key, qp) ==
  With(Deref(t, qp), LAMBDA q :
    \/ q = Nil
    \/ /\ Comparator(key, t.nodes[q].Key) = 0
       /\ \/ t.nodes[q].Children[1] = Nil
          \/ /\ RemoveMinReads(t, ChildSlot(q, 1), q)
             /\ With(removeMin(t, ChildSlot(q, 1), q), LAMBDA r :
                  r.ret => RemoveFixReads(r.t, -1, qp))
    \/ /\ Comparator(key, t.nodes[q].Key) # 0
       /\ With(Comparator(key, t.nodes[q].Key), LAMBDA c :
            /\ RemoveReads(t, key, ChildSlot(q, (c + 1) \div 2))
            /\ With(remove(t, key, ChildSlot(q, (c + 1) \div 2)), LAMBDA r :
                 r.ret => RemoveFixReads(r.t, -c, qp))))

\* C28: on every tree that Put and Remove with keys of the comparator's
\* domain have built, whatever key is put or removed next, every node that
\* putFix, removeFix, rotate and doublerot read through a child link is
\* there, and the call does not abort.
C28_FixupReadsPresentNodes ==
  \A k \in DeepKeys :
    /\ PutReads(tree, k, "v1", RootSlot)
    /\ ~TreePut(tree, k, "v1").panic
    /\ RemoveReads(tree, k, RootSlot)
    /\ ~TreeRemove(tree, k).panic

\* On one tree a Put is about to rotate twice below the root, a Remove to
\* rotate once below the root at a node whose heavy child is balanced, and a
\* Remove to rotate twice.
C28_Witness ==
  /\ \E k \in DeepKeys :
       With(TreePut(tree, k, "v1").t, LAMBDA u :
         \E i \in 1..Len(u.log) :
           /\ u.log[i].branch = "doublerot"
           /\ tree.nodes[u.log[i].s].Parent # Nil)
  /\ \E k \in DeepKeys :
       With(TreeRemove(tree, k).t, LAMBDA u :
         \E i \in 1..Len(u.log) :
           /\ u.log[i].branch = "rotate"
           /\ tree.nodes[u.log[i].s].Parent # Nil)
  /\ \E k \in DeepKeys : "doublerot" \in Branches(TreeRemove(tree, k).t)


\* ------------------------------------------------ a heap loaded from JSON

\* No element of the list l compares less than x.
IsMinimum(l, x) == \A i \in 1..Len(l) : Comparator(x, l[i]) <= 0

\* C29: after Heap.FromJSON has succeeded, every element of the heap's list
\* but the first compares greater than or equal to the one at its parent
\* index, and on a heap that is not empty the next Peek and the next Pop
\* return an element that none compares less than.
C29_HeapOrderAfterFromJSON ==
  ret.op = "HeapFromJSON" /\ ~ret.err =>
    /\ HeapOrdered(heap.list)
    /\ HeapSize(heap) > 0 =>
         /\ IsMinimum(heap.list, HeapPeek(heap).value)
         /\ IsMinimum(heap.list, HeapPop(heap).value)


====
